---- MODULE Spec2Model ----
(***************************************************************************)
(* HeyBoxUID: the request-signing routine (XhhUtil.gen_hkey), the signed   *)
(* HTTP client (XhhRequest), the response normaliser and the per-endpoint  *)
(* post-processors (XhhApi), and the display formatters of XhhUtil.        *)
(*                                                                         *)
(* Python values are tagged records: [t |-> "null"], [t |-> "bool", v],    *)
(* [t |-> "int", v], [t |-> "str", v] (an opaque text), [t |-> "chars", v] *)
(* (a text the program computes on, as a sequence of characters),          *)
(* [t |-> "list", v] and [t |-> "dict", v] (a function from keys to        *)
(* values; a key that is missing is not in its DOMAIN).                    *)
(***************************************************************************)
EXTENDS Integers, Sequences, FiniteSets, TLC

VARIABLES
    now,        \* int(time.time()): the clock the signing routine reads
    hkeyLog,    \* the gen_hkey calls made so far: (path, timestamp given, result)
    client,     \* the XhhRequest/XhhApi instance: its fields
    calls,      \* number of client calls made so far
    requests,   \* number of HTTP requests handed to the transport so far
    last,       \* the last client call: what was sent and what came back
    fmt,        \* the last call of a display formatter: argument and result
    day,        \* the upstream's check-in state of the current day
    db,         \* the rows of the XHHBind and XHHUser tables
    chat        \* the last chat command handled: its event and what the handler did

vars == <<now, hkeyLog, client, calls, requests, last, fmt, day, db, chat>>

\* the variables of the chat commands and of the upstream's day
botVars == <<day, db, chat>>

(***************************************************************************)
(* Bounds of the model.                                                    *)
(***************************************************************************)
Epoch == 1700000000
MaxTick == 2
MaxHkeyCalls == 2
MaxCalls == 2
MaxFen == 5000

(***************************************************************************)
(* Python values.                                                          *)
(***************************************************************************)
PyNone == [t |-> "null"]
PyBool(b) == [t |-> "bool", v |-> b]
PyInt(n) == [t |-> "int", v |-> n]
PyStr(s) == [t |-> "str", v |-> s]
PyChars(s) == [t |-> "chars", v |-> s]
PyList(s) == [t |-> "list", v |-> s]
PyDict(f) == [t |-> "dict", v |-> f]
EmptyDict == PyDict(<<>>)

IsNone(x) == x.t = "null"
IsDict(x) == x.t = "dict"
IsText(x) == x.t \in {"str", "chars"}

(***************************************************************************)
(* Characters and texts as sequences of characters.                        *)
(***************************************************************************)
Digits == <<"0", "1", "2", "3", "4", "5", "6", "7", "8", "9">>
LowerCase == <<"a", "b", "c", "d", "e", "f", "g", "h", "i", "j", "k", "l", "m",
               "n", "o", "p", "q", "r", "s", "t", "u", "v", "w", "x", "y", "z">>
UpperCase == <<"A", "B", "C", "D", "E", "F", "G", "H", "I", "J", "K", "L", "M",
               "N", "O", "P", "Q", "R", "S", "T", "U", "V", "W", "X", "Y", "Z">>
Punctuation == <<"/", "_", "=", ":", ".", "?", "#", ";", "-", "+", "&">>
Alphabet == Digits \o LowerCase \o UpperCase \o Punctuation

Range(s) == {s[i] : i \in DOMAIN s}
IndexIn(s, c) == CHOOSE i \in DOMAIN s : s[i] = c
CharCodes == [c \in Range(Alphabet) |-> IndexIn(Alphabet, c)]
CharCode(c) == CharCodes[c]

\* str.find(c, from): the first index >= from holding c, 0 when there is none
Find(s, c, from) ==
    IF \E i \in from..Len(s) : s[i] = c
    THEN CHOOSE i \in from..Len(s) : s[i] = c /\ \A j \in from..(i - 1) : s[j] # c
    ELSE 0

\* str.rfind(c): the last index holding c, 0 when there is none
RFind(s, c) ==
    IF \E i \in DOMAIN s : s[i] = c
    THEN CHOOSE i \in DOMAIN s : s[i] = c /\ \A j \in (i + 1)..Len(s) : s[j] # c
    ELSE 0

StartsWith(s, p) == Len(s) >= Len(p) /\ SubSeq(s, 1, Len(p)) = p

RECURSIVE RStrip(_, _)
RStrip(s, c) ==
    IF s # <<>> /\ s[Len(s)] = c THEN RStrip(SubSeq(s, 1, Len(s) - 1), c) ELSE s

\* str(n) / f"{n}" of an int
RECURSIVE NatToChars(_)
NatToChars(n) ==
    IF n < 10 THEN <<Digits[n + 1]>>
    ELSE NatToChars(n \div 10) \o <<Digits[(n % 10) + 1]>>

IntToChars(n) == IF n < 0 THEN <<"-">> \o NatToChars(-n) ELSE NatToChars(n)

\* str.replace(old, new) for a one-character old: every occurrence is replaced,
\* left to right, and the inserted text is not scanned again (the text is
\* split in halves to keep the evaluation shallow)
RECURSIVE Replace(_, _, _)
Replace(s, old, new) ==
    IF s = <<>> THEN <<>>
    ELSE IF Len(s) = 1 THEN (IF s[1] = old THEN new ELSE s)
    ELSE LET half == Len(s) \div 2
         IN  Replace(SubSeq(s, 1, half), old, new) \o Replace(SubSeq(s, half + 1, Len(s)), old, new)

UpperChar(c) ==
    IF c \in Range(LowerCase) THEN UpperCase[IndexIn(LowerCase, c)] ELSE c

\* str.upper()
Upper(s) == [i \in DOMAIN s |-> UpperChar(s[i])]

(***************************************************************************)
(* XhhUtil._md5: hashlib.md5(...).hexdigest(), as an abstract hash: a      *)
(* deterministic function of the whole text giving DigestLen lowercase     *)
(* hexadecimal characters.                                                 *)
(***************************************************************************)
DigestLen == 32

HexChars == SubSeq(Digits \o LowerCase, 1, 16)

\* the sum of f[lo..hi], the range split in halves
RECURSIVE SumOver(_, _, _)
SumOver(f, lo, hi) ==
    IF lo > hi THEN 0
    ELSE IF lo = hi THEN f[lo]
    ELSE LET mid == (lo + hi) \div 2 IN SumOver(f, lo, mid) + SumOver(f, mid + 1, hi)

\* two numbers, each depending on every character and on its position
Absorb(s) ==
    LET code == [i \in DOMAIN s |-> CharCode(s[i])]
    IN  << SumOver([i \in DOMAIN s |-> code[i] * ((i * i * 131 + i * 17 + 1) % 65521)],
                   1, Len(s)) % 65521,
           SumOver([i \in DOMAIN s |-> (code[i] + i) * ((i * 7919 + 13) % 65519)],
                   1, Len(s)) % 65519 >>

\* the i-th character of the digest of a text absorbed as h
Squeeze(h, i) == HexChars[(((h[1] * (i + 1) + h[2] * (2 * i + 3) + i) \div 5) % 16) + 1]

_md5(data) == LET h == Absorb(data) IN [i \in 1..DigestLen |-> Squeeze(h, i)]

(***************************************************************************)
(* urllib.parse.urlparse(url).path                                         *)
(***************************************************************************)
SchemeChars == Range(Digits) \cup Range(LowerCase) \cup Range(UpperCase) \cup {"+", "-", "."}

\* the text after "scheme:" when the text starts with a scheme
AfterScheme(url) ==
    LET i == Find(url, ":", 1)
    IN  IF /\ i > 1
           /\ url[1] \in Range(LowerCase) \cup Range(UpperCase)
           /\ \A j \in 1..(i - 1) : url[j] \in SchemeChars
        THEN SubSeq(url, i + 1, Len(url))
        ELSE url

\* the first index >= from of one of the characters of cs, Len(s) + 1 when none
FirstOf(s, cs, from) ==
    IF \E i \in from..Len(s) : s[i] \in cs
    THEN CHOOSE i \in from..Len(s) : s[i] \in cs /\ \A j \in from..(i - 1) : s[j] \notin cs
    ELSE Len(s) + 1

AfterNetloc(rest) ==
    IF StartsWith(rest, <<"/", "/">>)
    THEN SubSeq(rest, FirstOf(rest, {"/", "?", "#"}, 3), Len(rest))
    ELSE rest

Before(s, c) == LET i == Find(s, c, 1) IN IF i = 0 THEN s ELSE SubSeq(s, 1, i - 1)

SplitParams(p) ==
    LET i == Find(p, ";", IF RFind(p, "/") = 0 THEN 1 ELSE RFind(p, "/"))
    IN  IF i = 0 THEN p ELSE SubSeq(p, 1, i - 1)

UrlPath(url) == SplitParams(Before(Before(AfterNetloc(AfterScheme(url)), "#"), "?"))

(***************************************************************************)
(* XhhUtil.gen_hkey(path, timestamp): clock is what int(time.time()) gives *)
(* at the call.  The result is the pair (hkey, timestamp).                 *)
(***************************************************************************)
HkeyMarker == <<"/", "b", "f", "h", "d", "k", "u", "d", "_", "t", "i", "m", "e", "=">>
App == <<"a", "p", "p">>
Http == <<"h", "t", "t", "p">>
HkeyLen == 10

SignedPath(path) == IF StartsWith(path, Http) THEN RStrip(UrlPath(path), "/") ELSE path

\* HkeyOf with the two replacements in the other order
HkeyOfZeroFirst(raw) ==
    LET step1 == _md5(raw)
        step2 == Replace(Replace(step1, "0", App), "a", App)
    IN  Upper(SubSeq(_md5(step2), 1, HkeyLen))

HkeyOf(raw) ==
    LET step1 == _md5(raw)
        step2 == Replace(Replace(step1, "a", App), "0", App)
    IN  Upper(SubSeq(_md5(step2), 1, HkeyLen))

\* gen_hkey testing the timestamp for truth ("if not timestamp") instead of "is None"
gen_hkey_falsy(path, timestamp, clock) ==
    LET ts == IF IsNone(timestamp) \/ timestamp.v = 0 THEN clock ELSE timestamp.v
        raw == SignedPath(path) \o HkeyMarker \o IntToChars(ts)
    IN  [hkey |-> HkeyOf(raw), timestamp |-> ts]

gen_hkey(path, timestamp, clock) ==
    LET ts == IF IsNone(timestamp) THEN clock ELSE timestamp.v
        raw == SignedPath(path) \o HkeyMarker \o IntToChars(ts)
    IN  [hkey |-> HkeyOf(raw), timestamp |-> ts]

(***************************************************************************)
(* Python operations on values.                                            *)
(***************************************************************************)
Return(v) == [kind |-> "return", value |-> v]
Raise(e) == [kind |-> "raise", exc |-> e]
Raised(r) == r.kind = "raise"

\* dict operations
Has(d, k) == k \in DOMAIN d.v
Get(d, k, default) == IF Has(d, k) THEN d.v[k] ELSE default
Put(d, k, x) == PyDict([j \in DOMAIN d.v \cup {k} |-> IF j = k THEN x ELSE d.v[j]])
Update(d, e) ==
    PyDict([j \in DOMAIN d.v \cup DOMAIN e.v |-> IF j \in DOMAIN e.v THEN e.v[j] ELSE d.v[j]])

\* bool(x)
Truthy(x) ==
    CASE x.t = "null" -> FALSE
      [] x.t = "bool" -> x.v
      [] x.t = "int" -> x.v # 0
      [] x.t = "str" -> x.v # ""
      [] x.t = "chars" -> x.v # <<>>
      [] x.t = "list" -> x.v # <<>>
      [] x.t = "dict" -> DOMAIN x.v # {}

IsNumber(x) == x.t \in {"int", "bool"}
NumberOf(x) == IF x.t = "bool" THEN (IF x.v THEN 1 ELSE 0) ELSE x.v

\* x == y: a bool is the number 0 or 1, values of different types differ
PyEq(x, y) == IF IsNumber(x) /\ IsNumber(y) THEN NumberOf(x) = NumberOf(y) ELSE x = y

IsDecimal(s) == s # <<>> /\ Range(s) \subseteq Range(Digits)

RECURSIVE CharsToNat(_)
CharsToNat(s) ==
    IF s = <<>> THEN 0
    ELSE CharsToNat(SubSeq(s, 1, Len(s) - 1)) * 10 + (IndexIn(Digits, s[Len(s)]) - 1)

\* int(x)
int(x) ==
    CASE IsNumber(x) -> Return(NumberOf(x))
      [] x.t = "chars" -> IF IsDecimal(x.v) THEN Return(CharsToNat(x.v)) ELSE Raise("ValueError")
      [] x.t = "str" -> Raise("ValueError")
      [] OTHER -> Raise("TypeError")

\* str(x), as an opaque text
str(x) ==
    CASE x.t = "str" -> x.v
      [] x.t = "int" -> ToString(x.v)
      [] x.t = "bool" -> IF x.v THEN "True" ELSE "False"
      [] x.t = "null" -> "None"
      [] OTHER -> "repr"   \* the repr of a list or dict

(***************************************************************************)
(* ApiPath                                                                 *)
(***************************************************************************)
ApiPath ==
    [
      USER_INFO |->
          <<"/", "a", "c", "c", "o", "u", "n", "t", "/", "a", "p", "p", "/", "a", "c", "c",
          "o", "u", "n", "t", "/", "i", "n", "f", "o", "/">>,
      USER_PROFILE |->
          <<"/", "a", "c", "c", "o", "u", "n", "t", "/", "a", "p", "p", "/", "a", "c", "c",
          "o", "u", "n", "t", "/", "p", "r", "o", "f", "i", "l", "e", "/">>,
      NOTIFICATION_LIST |->
          <<"/", "a", "c", "c", "o", "u", "n", "t", "/", "a", "p", "p", "/", "n", "o", "t",
          "i", "f", "i", "c", "a", "t", "i", "o", "n", "/", "l", "i", "s", "t", "/">>,
      FEEDS_NEWS |->
          <<"/", "b", "b", "s", "/", "a", "p", "p", "/", "f", "e", "e", "d", "s", "/", "n",
          "e", "w", "s">>,
      FEEDS_HOT |->
          <<"/", "b", "b", "s", "/", "a", "p", "p", "/", "f", "e", "e", "d", "s", "/", "h",
          "o", "t">>,
      POST_DETAIL |->
          <<"/", "b", "b", "s", "/", "a", "p", "p", "/", "p", "o", "s", "t", "/", "i", "n",
          "f", "o", "/">>,
      POST_COMMENT |->
          <<"/", "b", "b", "s", "/", "a", "p", "p", "/", "p", "o", "s", "t", "/", "c", "o",
          "m", "m", "e", "n", "t", "/", "l", "i", "s", "t", "/">>,
      SEARCH_POSTS |->
          <<"/", "b", "b", "s", "/", "a", "p", "p", "/", "s", "e", "a", "r", "c", "h", "/",
          "p", "o", "s", "t", "/">>,
      GAME_INFO |->
          <<"/", "g", "a", "m", "e", "/", "a", "p", "p", "/", "l", "i", "n", "k", "/", "i",
          "n", "f", "o", "/">>,
      GAME_LOWEST_PRICE |->
          <<"/", "g", "a", "m", "e", "/", "a", "p", "p", "/", "l", "o", "w", "e", "s", "t",
          "_", "p", "r", "i", "c", "e", "/">>,
      GAME_SEARCH |->
          <<"/", "g", "a", "m", "e", "/", "a", "p", "p", "/", "s", "e", "a", "r", "c", "h",
          "/">>,
      GAME_ACHIEVEMENT |->
          <<"/", "g", "a", "m", "e", "/", "a", "p", "p", "/", "a", "c", "h", "i", "e", "v",
          "e", "m", "e", "n", "t", "/">>,
      GAME_LIBRARY |->
          <<"/", "g", "a", "m", "e", "/", "a", "p", "p", "/", "l", "i", "b", "r", "a", "r",
          "y", "/">>,
      GAME_WISH |->
          <<"/", "g", "a", "m", "e", "/", "a", "p", "p", "/", "w", "i", "s", "h", "_", "l",
          "i", "s", "t", "/">>,
      GAME_RANK |->
          <<"/", "g", "a", "m", "e", "/", "a", "p", "p", "/", "r", "a", "n", "k", "/">>,
      STORE_HOME |->
          <<"/", "s", "t", "o", "r", "e", "/", "a", "p", "p", "/", "i", "n", "d", "e", "x",
          "/">>,
      STORE_SALE |->
          <<"/", "s", "t", "o", "r", "e", "/", "a", "p", "p", "/", "s", "a", "l", "e", "/">>,
      TASK_STATS |->
          <<"/", "t", "a", "s", "k", "/", "s", "t", "a", "t", "s", "/">>,
      TASK_LIST |->
          <<"/", "t", "a", "s", "k", "/", "l", "i", "s", "t", "/">> ]

(***************************************************************************)
(* XhhRequest.__init__: the fields of an instance.  nonce0 is the value    *)
(* uuid.uuid4().hex had when the default of the parameter was evaluated.   *)
(***************************************************************************)
XhhRequest(heybox_id, pkey, x_xhh_tokenid) ==
    [ heybox_id |-> heybox_id,
      pkey |-> pkey,
      x_xhh_tokenid |-> x_xhh_tokenid,
      os_type |-> "web",
      version |-> "999.0.3",
      nonce |-> "nonce0",
      x_os_type |-> "Windows",
      x_app |-> "heybox_website",
      x_client_type |-> "web" ]

(***************************************************************************)
(* XhhUtil.build_common_params and XhhRequest._build_params                *)
(***************************************************************************)
build_common_params(path, heybox_id, x_client_type, version, os_type, nonce, extra, x_os_type, x_app, clock) ==
    LET signed == gen_hkey(path, PyNone, clock)
        params == PyDict([ heybox_id |-> PyStr(heybox_id),
                           os_type |-> PyStr(os_type),
                           x_client_type |-> PyStr(x_client_type),
                           version |-> PyStr(version),
                           _time |-> PyInt(signed.timestamp),
                           hkey |-> PyChars(signed.hkey),
                           nonce |-> PyStr(nonce),
                           x_os_type |-> PyStr(x_os_type),
                           x_app |-> PyStr(x_app) ])
    IN  IF Truthy(extra) THEN Update(params, extra) ELSE params

\* x_client_type is not passed on: build_common_params uses its default "web"
_build_params(self, path, extra, clock) ==
    build_common_params(path, self.heybox_id, "web", self.version, self.os_type,
                        self.nonce, extra, self.x_os_type, self.x_app, clock)

(***************************************************************************)
(* ApiHeader: the preset request headers.                                  *)
(***************************************************************************)
HeaderDefault ==
    ("User-Agent" :> PyStr("Mozilla/5.0 (Linux; Android 11; Pixel 5) AppleWebKit/537.36 (KHTML, like Gecko) Chrome/90.0.4430.91 Mobile Safari/537.36"))
        @@ ("Referer" :> PyStr("http://api.maxjia.com/"))
        @@ ("Accept" :> PyStr("application/json"))
        @@ ("Accept-Encoding" :> PyStr("gzip"))
        @@ ("Connection" :> PyStr("Keep-Alive"))

ApiHeader ==
    [ DEFAULT |-> PyDict(HeaderDefault),
      FORM |-> PyDict(HeaderDefault
                        @@ ("Content-Type" :> PyStr("application/x-www-form-urlencoded"))),
      PLATFORM |-> PyDict(HeaderDefault @@ ("platform" :> PyStr("android"))) ]

(***************************************************************************)
(* The HTTP exchange.  An outcome is what the transport does with one      *)
(* request: it fails with an exception, or it delivers a response with a   *)
(* status code and a body that is JSON or not.                             *)
(***************************************************************************)
TransportError(text) == [kind |-> "exception", text |-> text]
Response(code, body) == [kind |-> "response", code |-> code, json |-> TRUE, body |-> body]
NotJson(code) == [kind |-> "response", code |-> code, json |-> FALSE, body |-> PyNone]

ErrorObject(message) == PyDict([status |-> PyStr("error"), message |-> PyStr(message)])

JSONDecodeError == "Expecting value: line 1 column 1 (char 0)"

\* what the try block of _get_request / _post_request gives for an outcome
Decoded(outcome) ==
    IF outcome.kind = "exception" THEN ErrorObject(outcome.text)
    ELSE IF outcome.code >= 400 THEN ErrorObject("HTTP " \o ToString(outcome.code))
    ELSE IF ~outcome.json THEN ErrorObject(JSONDecodeError)
    ELSE outcome.body

Failed(outcome) == outcome.kind = "exception" \/ outcome.code >= 400 \/ ~outcome.json

\* _get_request issuing the request again after a failure
_get_request_retry(self, path, params, headers, outcome) ==
    LET req == [verb |-> "GET", path |-> path, params |-> params, headers |-> headers,
                form |-> PyNone,
                cookies |-> EmptyDict]
    IN  [ sent |-> IF Failed(outcome) THEN <<req, req>> ELSE <<req>>,
          raw |-> Decoded(outcome) ]

\* the request holds no cookies: "cookies={"pkey": ..., "x_xhh_tokenid": ...}" is
\* commented out and nothing puts a cookie into the client
\* the requests handed to the transport, and the value returned
_get_request(self, path, params, headers, outcome) ==
    LET req == [verb |-> "GET", path |-> path, params |-> params, headers |-> headers,
                form |-> PyNone,
                cookies |-> EmptyDict]
    IN  [sent |-> <<req>>, raw |-> Decoded(outcome)]

_post_request(self, path, form_data, params, headers, outcome) ==
    LET req == [verb |-> "POST", path |-> path, params |-> params, headers |-> headers,
                form |-> form_data,
                cookies |-> EmptyDict]
    IN  [sent |-> <<req>>, raw |-> Decoded(outcome)]

_signed_get(self, path, extra_params, headers, clock, outcome) ==
    _get_request(self, path, _build_params(self, path, extra_params, clock), headers, outcome)

_signed_post(self, path, form_data, extra_params, headers, clock, outcome) ==
    _post_request(self, path, form_data, _build_params(self, path, extra_params, clock),
                  headers, outcome)

(***************************************************************************)
(* XhhUtil.parse_response                                                  *)
(***************************************************************************)
Fetched == "fetched"                \* "获取成功"
RequestFailed == "request failed: " \* "请求失败: "

Result(ok, text, payload) ==
    PyDict([status |-> PyBool(ok), message |-> PyStr(text), data |-> payload])

\* parse_response keeping the payload of a failed envelope
parse_response_keeps_data(data) ==
    IF ~IsDict(data) THEN Raise("AttributeError")
    ELSE IF PyEq(Get(data, "status", PyNone), PyStr("ok"))
    THEN Return(Result(TRUE, Fetched, Get(data, "data", EmptyDict)))
    ELSE LET msg == Get(data, "message",
                        Get(data, "msg", PyStr(RequestFailed \o str(Get(data, "status", PyNone)))))
         IN  Return(Result(FALSE, str(msg), Get(data, "data", EmptyDict)))

parse_response(data) ==
    IF ~IsDict(data) THEN Raise("AttributeError")
    ELSE IF PyEq(Get(data, "status", PyNone), PyStr("ok"))
    THEN Return(Result(TRUE, Fetched, Get(data, "data", EmptyDict)))
    ELSE LET msg == Get(data, "message",
                        Get(data, "msg", PyStr(RequestFailed \o str(Get(data, "status", PyNone)))))
         IN  Return(Result(FALSE, str(msg), EmptyDict))

(***************************************************************************)
(* XhhUtil: display formatters.                                            *)
(***************************************************************************)
\* 好评如潮, 特别好评, 多半好评, 褒贬不一, 多半差评, 差评如潮, in the order of the dict
REVIEW_SCORE_MAP ==
    << [lo |-> 90, hi |-> 100, label |-> "overwhelmingly positive"],
       [lo |-> 80, hi |-> 90, label |-> "very positive"],
       [lo |-> 70, hi |-> 80, label |-> "mostly positive"],
       [lo |-> 40, hi |-> 70, label |-> "mixed"],
       [lo |-> 20, hi |-> 40, label |-> "mostly negative"],
       [lo |-> 0, hi |-> 20, label |-> "overwhelmingly negative"] >>

UnknownScore(score) == "unknown score(" \o str(score) \o ")"   \* "未知评分(<score>)"

\* the bands closed above instead of below: lo < score <= hi
get_review_label_closed_above(score) ==
    IF ~IsNumber(score) THEN Raise("TypeError")
    ELSE LET n == NumberOf(score)
             hits == {i \in DOMAIN REVIEW_SCORE_MAP :
                         REVIEW_SCORE_MAP[i].lo < n /\ n <= REVIEW_SCORE_MAP[i].hi}
         IN  IF hits = {} THEN Return(PyStr(UnknownScore(score)))
             ELSE Return(PyStr(REVIEW_SCORE_MAP[CHOOSE i \in hits : \A j \in hits : i <= j].label))

\* the first band, in dict order, with lo <= score < hi
get_review_label(score) ==
    IF ~IsNumber(score) THEN Raise("TypeError")
    ELSE LET n == NumberOf(score)
             hits == {i \in DOMAIN REVIEW_SCORE_MAP :
                         REVIEW_SCORE_MAP[i].lo <= n /\ n < REVIEW_SCORE_MAP[i].hi}
         IN  IF hits = {} THEN Return(PyStr(UnknownScore(score)))
             ELSE Return(PyStr(REVIEW_SCORE_MAP[CHOOSE i \in hits : \A j \in hits : i <= j].label))

RECURSIVE Pow10(_)
Pow10(k) == IF k = 0 THEN 1 ELSE 10 * Pow10(k - 1)

RECURSIVE ZeroPad(_, _)
ZeroPad(s, width) == IF Len(s) >= width THEN s ELSE ZeroPad(<<"0">> \o s, width)

\* the quotient q and the remainder r of a division by den, rounded to the
\* nearest integer, a tie to the even one
Rounded(q, r, den) == IF 2 * r > den \/ (2 * r = den /\ q % 2 = 1) THEN q + 1 ELSE q

\* scaled / 10^places written with exactly `places` decimals
Fixed(scaled, places) ==
    NatToChars(scaled \div Pow10(places)) \o <<".">>
        \o ZeroPad(NatToChars(scaled % Pow10(places)), places)

\* f"{num / den:.<places>f}" for num >= 0: the quotient rounded to the nearest
\* multiple of 10^-places, with exactly `places` decimals
FormatFixed(num, den, places) ==
    Fixed(Rounded((num * Pow10(places)) \div den, (num * Pow10(places)) % den, den), places)

YuanSign == "U+00A5"                  \* the character "¥"
FreeMarker == <<"U+514D", "U+8D39">>  \* "免费"

\* Yuan without the test for 0
YuanNoFree(x) ==
    IF ~IsNumber(x) THEN Raise("TypeError")
    ELSE Return(PyChars(<<YuanSign>> \o FormatFixed(NumberOf(x), 100, 2)))

\* price_fen_to_yuan from "if price_fen == 0" on, for an amount that is not negative
Yuan(x) ==
    IF PyEq(x, PyInt(0)) THEN Return(PyChars(FreeMarker))
    ELSE IF ~IsNumber(x) THEN Raise("TypeError")
    ELSE Return(PyChars(<<YuanSign>> \o FormatFixed(NumberOf(x), 100, 2)))

\* price_fen = int(price_fen), then the rest
YuanOfText(n) == IF Raised(n) THEN n ELSE Yuan(PyInt(n.value))

price_fen_to_yuan(price_fen) ==
    IF IsText(price_fen) THEN YuanOfText(int(price_fen)) ELSE Yuan(price_fen)

\* timestamp_to_readable: the local date and time of the timestamp as a text,
\* kept abstract (no formula of this module reads it)
timestamp_to_readable(timestamp) == PyStr("%Y-%m-%d %H:%M:%S of " \o str(timestamp))

(***************************************************************************)
(* _parse_task_stats                                                       *)
(***************************************************************************)
ExpiredHint == "request failed, check whether pkey expired"  \* "请求失败，请检查 pkey 是否过期"
AlreadySigned == "already signed in today"                   \* "今日已签到"

\* f"签到成功！盒币 +{coin}，连续签到 {streak} 天"
SignedInMessage(coin, streak) ==
    "signed in! coin +" \o ToString(coin) \o ", streak " \o ToString(streak) \o " days"

\* the first exception a sequence of evaluations raises, if any does
FirstRaised(rs) ==
    IF \E i \in DOMAIN rs : Raised(rs[i])
    THEN <<rs[CHOOSE i \in DOMAIN rs : Raised(rs[i]) /\ \A j \in 1..(i - 1) : ~Raised(rs[j])]>>
    ELSE <<>>

\* the check-in branch with the test of "signed" inverted
CheckinResultInverted(signed, coin, streak, parsed_data) ==
    IF ~signed
    THEN Return(Result(TRUE, SignedInMessage(coin, streak), parsed_data))
    ELSE Return(Result(FALSE, AlreadySigned, parsed_data))

\* the branch "if is_checkin_call" of _parse_task_stats
CheckinResult(signed, coin, streak, parsed_data) ==
    IF signed
    THEN Return(Result(TRUE, SignedInMessage(coin, streak), parsed_data))
    ELSE Return(Result(FALSE, AlreadySigned, parsed_data))

_parse_task_stats(raw, is_checkin_call) ==
    IF ~IsDict(raw) THEN Raise("AttributeError")
    ELSE IF ~PyEq(Get(raw, "status", PyNone), PyStr("ok"))
    THEN LET msg == Get(raw, "message", Get(raw, "msg", PyStr(ExpiredHint)))
         IN  Return(Result(FALSE, str(msg), EmptyDict))
    ELSE
    LET d == Get(raw, "data", EmptyDict)
    IN  IF ~IsDict(d) THEN Raise("AttributeError")
        ELSE
        LET signed == Truthy(Get(d, "sign_in", PyInt(0)))
            streak == int(Get(d, "sign_in_streak", PyInt(0)))
            coin == int(Get(d, "coin", PyInt(0)))
            exp == int(Get(d, "exp", PyInt(0)))
            max_exp == int(Get(d, "max_exp", PyInt(0)))
            task_share == Truthy(Get(d, "task1", PyInt(0)))
            task_like == Truthy(Get(d, "task2", PyInt(0)))
            failure == FirstRaised(<<streak, coin, exp, max_exp>>)
        IN  IF failure # <<>> THEN failure[1]
            ELSE
            LET parsed_data == PyDict([ sign_in |-> PyBool(signed),
                                        sign_in_streak |-> PyInt(streak.value),
                                        coin |-> PyInt(coin.value),
                                        exp |-> PyInt(exp.value),
                                        max_exp |-> PyInt(max_exp.value),
                                        share |-> PyBool(task_share),
                                        like |-> PyBool(task_like) ])
            IN  IF is_checkin_call
                THEN CheckinResult(signed, coin.value, streak.value, parsed_data)
                ELSE Return(Result(TRUE, "ok", parsed_data))

(***************************************************************************)
(* XhhApi: the public methods.  Each makes one call of _signed_get, given  *)
(* here under the method's name as a function of the arguments a of the    *)
(* call, and makes its result of the value returned: by parse_response, by *)
(* _parse_task_stats, or by parse_response and then the definition named   *)
(* <method>_result.  A result is a value returned or an exception raised   *)
(* to the caller.                                                          *)
(***************************************************************************)
\* a call of _signed_get(path, extra_params=..., headers=ApiHeader.DEFAULT)
Request(path, extra_params) == [path |-> path, extra_params |-> extra_params]

WithLinkId(extra, user_id) == IF Truthy(user_id) THEN Put(extra, "link_id", user_id) ELSE extra
Page(a) == PyDict([limit |-> a.limit, offset |-> a.offset])

get_user_info(a) == Request(ApiPath.USER_INFO, WithLinkId(EmptyDict, a.user_id))
get_user_profile(a) == Request(ApiPath.USER_PROFILE, PyDict([link_id |-> a.link_id]))
get_notifications(a) == Request(ApiPath.NOTIFICATION_LIST, Page(a))
get_news(a) == Request(ApiPath.FEEDS_NEWS, Page(a))
get_hot_posts(a) == Request(ApiPath.FEEDS_HOT, Page(a))
get_post_detail(a) == Request(ApiPath.POST_DETAIL, PyDict([post_id |-> a.post_id]))
get_post_comments(a) == Request(ApiPath.POST_COMMENT, Put(Page(a), "post_id", a.post_id))
search_posts(a) == Request(ApiPath.SEARCH_POSTS, Put(Page(a), "keyword", a.keyword))
search_game(a) == Request(ApiPath.GAME_SEARCH, Put(Page(a), "keyword", a.keyword))
get_game_library(a) == Request(ApiPath.GAME_LIBRARY, WithLinkId(Page(a), a.user_id))
get_game_wish(a) == Request(ApiPath.GAME_WISH, WithLinkId(Page(a), a.user_id))
get_game_rank(a) == Request(ApiPath.GAME_RANK, Put(Page(a), "type", a.rank_type))
get_store_home(a) == Request(ApiPath.STORE_HOME, PyNone)
get_game_info(a) == Request(ApiPath.GAME_INFO, PyDict([app_id |-> a.app_id]))
get_game_lowest_price(a) == Request(ApiPath.GAME_LOWEST_PRICE, PyDict([app_id |-> a.app_id]))
get_game_achievement(a) == Request(ApiPath.GAME_ACHIEVEMENT, PyDict([app_id |-> a.app_id]))
get_store_sale(a) == Request(ApiPath.STORE_SALE, Page(a))
get_task_stats(a) == Request(ApiPath.TASK_STATS, PyNone)
checkin(a) == Request(ApiPath.TASK_STATS, PyNone)

\* "if result["status"] and isinstance(result["data"], dict)"
Enrichable(parsed) ==
    /\ ~Raised(parsed)
    /\ Truthy(parsed.value.v["status"])
    /\ IsDict(parsed.value.v["data"])

\* d[key] = label, unless computing the label raised
Labelled(d, key, label) == IF Raised(label) THEN label ELSE Return(Put(d, key, label.value))

\* the result with the data as enriched, unless enriching it raised
Enriched(parsed, data) ==
    IF Raised(data) THEN data ELSE Return(Put(parsed.value, "data", data.value))

\* get_game_info from "result = XhhUtil.parse_response(raw)" on
get_game_info_result(parsed) ==
    IF ~Enrichable(parsed) THEN parsed
    ELSE Enriched(parsed,
                  Labelled(parsed.value.v["data"], "review_label",
                           get_review_label(Get(parsed.value.v["data"], "review_score",
                                                PyInt(0)))))

\* d[label_key] = price_fen_to_yuan(d[key]) if key in d
PriceLabel(d, key, label_key) ==
    IF ~Has(d, key) THEN Return(d) ELSE Labelled(d, label_key, price_fen_to_yuan(d.v[key]))

\* the next "if key in d" after one that may have raised
ThenPriceLabel(d, key, label_key) ==
    IF Raised(d) THEN d ELSE PriceLabel(d.value, key, label_key)

\* get_game_lowest_price from "result = XhhUtil.parse_response(raw)" on
get_game_lowest_price_result(parsed) ==
    IF ~Enrichable(parsed) THEN parsed
    ELSE Enriched(parsed,
                  ThenPriceLabel(PriceLabel(parsed.value.v["data"], "lowest_price",
                                            "lowest_price_label"),
                                 "current_price", "current_price_label"))

\* the percentage cut after its first decimal instead of rounded to it
ProgressTruncated(total, achieved) ==
    IF ~IsNumber(total) THEN Raise("TypeError")
    ELSE IF NumberOf(total) > 0
    THEN IF ~IsNumber(achieved) THEN Raise("TypeError")
         ELSE Return(PyChars(Fixed((NumberOf(achieved) * 1000) \div NumberOf(total), 1)
                             \o <<"%">>))
    ELSE Return(PyChars(<<"0", ".", "0", "%">>))

\* f"{achieved / total * 100:.1f}%" if total > 0 else "0.0%"
Progress(total, achieved) ==
    IF ~IsNumber(total) THEN Raise("TypeError")
    ELSE IF NumberOf(total) > 0
    THEN IF ~IsNumber(achieved) THEN Raise("TypeError")
         ELSE Return(PyChars(FormatFixed(NumberOf(achieved) * 100, NumberOf(total), 1)
                             \o <<"%">>))
    ELSE Return(PyChars(<<"0", ".", "0", "%">>))

\* get_game_achievement from "result = XhhUtil.parse_response(raw)" on
get_game_achievement_result(parsed) ==
    IF ~Enrichable(parsed) THEN parsed
    ELSE Enriched(parsed,
                  Labelled(parsed.value.v["data"], "progress",
                           Progress(Get(parsed.value.v["data"], "total", PyInt(0)),
                                    Get(parsed.value.v["data"], "achieved", PyInt(0)))))

\* "if isinstance(item.get("sale_end_time"), int)" after the two price labels
ThenSaleEndTime(item) ==
    IF Raised(item) THEN item
    ELSE IF IsNumber(Get(item.value, "sale_end_time", PyNone))
    THEN Return(Put(item.value, "sale_end_time",
                    timestamp_to_readable(item.value.v["sale_end_time"])))
    ELSE item

\* the body of the loop of get_store_sale for one item
SaleItem(item) ==
    IF item.t \in {"null", "int", "bool"} THEN Raise("TypeError")
    ELSE IF ~IsDict(item) THEN Raise("AttributeError")
    ELSE ThenSaleEndTime(ThenPriceLabel(PriceLabel(item, "current_price", "current_price_label"),
                                        "original_price", "original_price_label"))

\* "for item in ...": the items a value yields when iterated
Iterate(x) ==
    CASE x.t = "list" -> Return(x.v)
      [] x.t = "dict" ->
            LET keys == DOMAIN x.v
                order == CHOOSE s \in [1..Cardinality(keys) -> keys] : Range(s) = keys
            IN  Return([i \in DOMAIN order |-> PyStr(order[i])])
      [] x.t = "chars" -> Return([i \in DOMAIN x.v |-> PyChars(<<x.v[i]>>)])
      [] x.t = "str" -> Return(IF x.v = "" THEN <<>> ELSE <<x>>)
      [] OTHER -> Raise("TypeError")

\* the result once the loop has treated the items as `done`: the first exception
\* raised, else the result with the items as they are now (the items are
\* changed in place: they are the data's own only when "list" is a list)
SaleLoopDone(parsed, d, done) ==
    IF FirstRaised(done) # <<>> THEN FirstRaised(done)[1]
    ELSE IF ~Has(d, "list") THEN parsed
    ELSE IF d.v["list"].t # "list" THEN parsed
    ELSE Return(Put(parsed.value, "data",
                    Put(d, "list", PyList([i \in DOMAIN done |-> done[i].value]))))

\* "for item in result["data"].get("list", [])"
SaleLoop(parsed, d, items) ==
    IF Raised(items) THEN items
    ELSE SaleLoopDone(parsed, d, [i \in DOMAIN items.value |-> SaleItem(items.value[i])])

\* get_store_sale from "result = XhhUtil.parse_response(raw)" on
get_store_sale_result(parsed) ==
    IF ~Enrichable(parsed) THEN parsed
    ELSE SaleLoop(parsed, parsed.value.v["data"],
                  Iterate(Get(parsed.value.v["data"], "list", PyList(<<>>))))

PlainMethods ==
    { "get_user_info", "get_user_profile", "get_notifications", "get_news", "get_hot_posts",
      "get_post_detail", "get_post_comments", "search_posts", "search_game",
      "get_game_library", "get_game_wish", "get_game_rank", "get_store_home" }

TaskMethods == {"get_task_stats", "checkin"}

Methods ==
    PlainMethods \cup TaskMethods \cup
        {"get_game_info", "get_game_lowest_price", "get_game_achievement", "get_store_sale"}

\* the signed GET the method m makes with the arguments a
RequestOf(m, a) ==
    CASE m = "get_user_info" -> get_user_info(a)
      [] m = "get_user_profile" -> get_user_profile(a)
      [] m = "get_notifications" -> get_notifications(a)
      [] m = "get_news" -> get_news(a)
      [] m = "get_hot_posts" -> get_hot_posts(a)
      [] m = "get_post_detail" -> get_post_detail(a)
      [] m = "get_post_comments" -> get_post_comments(a)
      [] m = "search_posts" -> search_posts(a)
      [] m = "search_game" -> search_game(a)
      [] m = "get_game_library" -> get_game_library(a)
      [] m = "get_game_wish" -> get_game_wish(a)
      [] m = "get_game_rank" -> get_game_rank(a)
      [] m = "get_store_home" -> get_store_home(a)
      [] m = "get_game_info" -> get_game_info(a)
      [] m = "get_game_lowest_price" -> get_game_lowest_price(a)
      [] m = "get_game_achievement" -> get_game_achievement(a)
      [] m = "get_store_sale" -> get_store_sale(a)
      [] m = "get_task_stats" -> get_task_stats(a)
      [] m = "checkin" -> checkin(a)

\* what the method m makes of the value raw that _signed_get returned
ResultOf(m, raw) ==
    CASE m = "get_game_info" -> get_game_info_result(parse_response(raw))
      [] m = "get_game_lowest_price" -> get_game_lowest_price_result(parse_response(raw))
      [] m = "get_game_achievement" -> get_game_achievement_result(parse_response(raw))
      [] m = "get_store_sale" -> get_store_sale_result(parse_response(raw))
      [] m \in TaskMethods -> _parse_task_stats(raw, m = "checkin")
      [] m \in PlainMethods -> parse_response(raw)
      [] OTHER -> Return(raw)   \* _signed_get, _signed_post called on their own

\* the requests handed to the transport, the value _signed_get returned and the
\* method's result
Call(m, exchange) ==
    [sent |-> exchange.sent, raw |-> exchange.raw, result |-> ResultOf(m, exchange.raw)]

Invoke(m, self, a, clock, outcome) ==
    Call(m, _signed_get(self, RequestOf(m, a).path, RequestOf(m, a).extra_params, "DEFAULT",
                        clock, outcome))

(***************************************************************************)
(* What the upstream may answer.                                           *)
(***************************************************************************)
Absent == [t |-> "absent"]

\* the JSON object with the fields of f that are not Absent
Object(f) == PyDict([k \in {j \in DOMAIN f : f[j] # Absent} |-> f[k]])

OkEnvelope(data) == PyDict([status |-> PyStr("ok"), data |-> data])

Envelopes ==
    { Object([status |-> s, message |-> m, msg |-> g, data |-> d]) :
        s \in {Absent, PyStr("ok"), PyStr("fail"), PyInt(1)},
        m \in {Absent, PyStr("x"), PyNone, PyInt(5)},
        g \in {Absent, PyStr("y")},
        d \in {Absent, PyNone, EmptyDict, PyDict([a |-> PyInt(1)]), PyList(<<PyInt(1)>>)} }

NonObjects == {PyList(<<PyInt(1)>>), PyNone, PyStr("ok"), PyInt(1)}

Failures ==
    { TransportError("ConnectError"), TransportError("ReadTimeout"), NotJson(200),
      NotJson(404), Response(500, OkEnvelope(EmptyDict)) }

CoreBodies ==
    { OkEnvelope(PyDict([a |-> PyInt(1)])), OkEnvelope(PyNone),
      PyDict([status |-> PyStr("fail"), message |-> PyStr("x")]),
      PyList(<<PyInt(1)>>) }

FieldValues ==
    { Absent, PyNone, PyBool(TRUE), PyInt(0), PyInt(1), PyChars(<<"5">>), PyChars(<<"x">>),
      PyList(<<>>) }

TaskKeys == {"sign_in", "sign_in_streak", "coin", "exp", "max_exp", "task1", "task2"}

TaskState(sign_in) ==
    [ sign_in |-> PyInt(sign_in), sign_in_streak |-> PyInt(7), coin |-> PyInt(100),
      exp |-> PyInt(120), max_exp |-> PyInt(200), task1 |-> PyInt(1), task2 |-> PyInt(0) ]

\* the well-formed task states, those with one field changed, and those of one field
TaskDatas ==
    { Object([TaskState(s) EXCEPT ![k] = x]) : s \in {0, 1}, k \in TaskKeys, x \in FieldValues }
    \cup { Object([j \in {k} |-> x]) : k \in TaskKeys, x \in FieldValues }
    \cup { PyDict(TaskState(s)) : s \in {0, 1} }

InfoDatas ==
    { Object([name |-> PyStr("CS2"), review_score |-> x]) :
        x \in FieldValues \cup {PyInt(15), PyInt(85), PyInt(100)} }

PriceDatas ==
    { Object([lowest_price |-> x, current_price |-> y]) :
        x \in FieldValues \cup {PyInt(999), PyChars(<<"9", "9", "9">>)},
        y \in {Absent, PyNone, PyInt(1999)} }

AchievementDatas ==
    { Object([total |-> x, achieved |-> y]) :
        x \in FieldValues \cup {PyInt(50), PyInt(3)},
        y \in {Absent, PyNone, PyInt(0), PyInt(1), PyInt(2), PyInt(30)} }

SaleItems ==
    { Object([name |-> PyStr("CS2"), current_price |-> x, sale_end_time |-> y]) :
        x \in {Absent, PyNone, PyInt(0), PyInt(9999)}, y \in {Absent, PyInt(Epoch)} }

SaleDatas ==
    { Object([total |-> PyInt(1), list |-> x]) :
        x \in {Absent, PyNone, EmptyDict, PyList(<<>>), PyList(<<PyInt(1)>>)}
              \cup {PyList(<<i>>) : i \in SaleItems}
              \cup {PyList(<<Object([current_price |-> PyInt(9999)]), i>>) : i \in SaleItems} }

OkBodies(datas) == {OkEnvelope(d) : d \in datas}

BodiesOf(m) ==
    CASE m = "get_news" -> Envelopes \cup NonObjects
      [] m \in TaskMethods -> Envelopes \cup NonObjects \cup OkBodies(TaskDatas)
      [] m = "get_game_info" -> CoreBodies \cup OkBodies(InfoDatas)
      [] m = "get_game_lowest_price" -> CoreBodies \cup OkBodies(PriceDatas)
      [] m = "get_game_achievement" -> CoreBodies \cup OkBodies(AchievementDatas)
      [] m = "get_store_sale" -> CoreBodies \cup OkBodies(SaleDatas)
      [] OTHER -> CoreBodies

OutcomesOf(m) == Failures \cup {Response(200, b) : b \in BodiesOf(m)}

\* the arguments of a call: user_id is optional, the others have one value each
ArgumentsOf(m) ==
    { [ user_id |-> u, link_id |-> PyStr("87654321"), limit |-> PyInt(20),
        offset |-> PyInt(0), app_id |-> PyInt(730), keyword |-> PyStr("cs"),
        post_id |-> PyStr("abc123"), rank_type |-> PyStr("hot") ] :
        u \in IF m \in {"get_user_info", "get_game_library", "get_game_wish"}
              THEN {PyNone, PyStr(""), PyStr("87654321")}
              ELSE {PyNone} }

\* the extra parameters a caller of _signed_get / _signed_post may give
Extras ==
    { PyNone, EmptyDict, PyDict([app_id |-> PyInt(730)]),
      PyDict([hkey |-> PyStr("FORGED")]), PyDict([_time |-> PyInt(0)]),
      PyDict([heybox_id |-> PyStr("87654321"), limit |-> PyInt(20)]) }

DirectPaths == {ApiPath.TASK_STATS, ApiPath.TASK_LIST, ApiPath.FEEDS_NEWS}
DirectOutcomes == Failures \cup {Response(200, b) : b \in CoreBodies}
Forms == {PyNone, PyDict([a |-> PyInt(1)])}

(***************************************************************************)
(* The client in use: calls are made one at a time, each runs to its end.  *)
(***************************************************************************)
Accounts == {"12345678", "87654321"}

\* the instances: one constructed with the defaults of __init__, one with every
\* keyword of client metadata given
Clients ==
    { XhhRequest("12345678", "pkey1", "token1"),
      [ XhhRequest("87654321", "pkey1", "token1") EXCEPT
          !.os_type = "android", !.version = "1.3.339", !.nonce = "nonce1",
          !.x_os_type = "Android", !.x_app = "heybox", !.x_client_type = "mobile" ] }

Idle == [method |-> "none"]

\* nobody signed in today, empty tables, no command handled yet
NoDay == [signed |-> {}, checkins |-> {}]
EmptyDb == [bind |-> <<>>, users |-> <<>>]
Quiet == [command |-> "none"]
BotAtRest == day = NoDay /\ db = EmptyDb /\ chat = Quiet
Busy == last # Idle

Done(method, a, at, outcome, call) ==
    [ method |-> method, a |-> a, at |-> at, outcome |-> outcome,
      sent |-> call.sent, raw |-> call.raw, result |-> call.result ]

Init ==
    /\ now = Epoch
    /\ hkeyLog = {}
    /\ client \in Clients
    /\ calls = 0
    /\ requests = 0
    /\ last = Idle
    /\ fmt = [fn |-> "none"]
    /\ BotAtRest

\* time passes between two calls
Tick ==
    /\ ~Busy
    /\ now < Epoch + MaxTick
    /\ now' = now + 1
    /\ UNCHANGED <<hkeyLog, client, calls, requests, last, fmt>>
    /\ UNCHANGED botVars

\* a public method of XhhApi is called and runs to its end
ApiCall ==
    /\ ~Busy
    /\ calls < MaxCalls
    /\ last' \in UNION { { Done(m, a, now, outcome, Invoke(m, client, a, now, outcome)) :
                               a \in ArgumentsOf(m), outcome \in OutcomesOf(m) } :
                             m \in Methods }
    /\ requests' = requests + Len(last'.sent)
    /\ calls' = calls + 1
    /\ UNCHANGED <<now, hkeyLog, client, fmt>>
    /\ UNCHANGED botVars

\* _signed_get is called by a subclass or a caller of its own
SignedGet ==
    /\ ~Busy
    /\ calls < MaxCalls
    /\ last' \in { Done("_signed_get", extra_params, now, outcome,
                         Call("_signed_get",
                              _signed_get(client, path, extra_params, "DEFAULT", now, outcome))) :
                      path \in DirectPaths, extra_params \in Extras, outcome \in DirectOutcomes }
    /\ requests' = requests + Len(last'.sent)
    /\ calls' = calls + 1
    /\ UNCHANGED <<now, hkeyLog, client, fmt>>
    /\ UNCHANGED botVars

\* _signed_post is called
SignedPost ==
    /\ ~Busy
    /\ calls < MaxCalls
    /\ last' \in { Done("_signed_post", extra_params, now, outcome,
                         Call("_signed_post",
                              _signed_post(client, path, form_data, extra_params, "FORM", now,
                                           outcome))) :
                      path \in DirectPaths, extra_params \in Extras, outcome \in DirectOutcomes,
                      form_data \in Forms }
    /\ requests' = requests + Len(last'.sent)
    /\ calls' = calls + 1
    /\ UNCHANGED <<now, hkeyLog, client, fmt>>
    /\ UNCHANGED botVars

\* the caller has taken the result of the call
Resume ==
    /\ Busy
    /\ last' = Idle
    /\ UNCHANGED <<now, hkeyLog, client, calls, requests, fmt>>
    /\ UNCHANGED botVars

Next == Tick \/ ApiCall \/ SignedGet \/ SignedPost \/ Resume

Spec == Init /\ [][Next]_vars

(***************************************************************************)
(* The signing routine called on its own.                                  *)
(***************************************************************************)
HkeyPaths ==
    { ApiPath.TASK_STATS, ApiPath.FEEDS_NEWS,
      <<"h", "t", "t", "p", "s", ":", "/", "/", "a", "p", "i", ".", "x", "i", "a", "o", "h",
        "e", "i", "h", "e", ".", "c", "n", "/", "t", "a", "s", "k", "/", "s", "t", "a", "t",
        "s", "/">>,
      <<"h", "t", "t", "p", ":", "/", "/", "h", "/", "a", "/", "b", "/", "/", "?", "q", "=",
        "1", "#", "f">> }

Clock == Epoch..(Epoch + MaxTick)
HkeyTimestamps == {PyNone, PyInt(0), PyInt(Epoch)}

InitHkey ==
    /\ now = Epoch
    /\ hkeyLog = {}
    /\ client = XhhRequest("12345678", "pkey1", "token1")
    /\ calls = 0
    /\ requests = 0
    /\ last = Idle
    /\ fmt = [fn |-> "none"]
    /\ BotAtRest

\* XhhUtil.gen_hkey(path, timestamp) is called
CallGenHkey ==
    /\ Cardinality(hkeyLog) < MaxHkeyCalls
    /\ \E path \in HkeyPaths, timestamp \in HkeyTimestamps :
          hkeyLog' = hkeyLog \cup
              {[path |-> path, timestamp |-> timestamp, at |-> now,
                result |-> gen_hkey(path, timestamp, now)]}
    /\ UNCHANGED <<now, client, calls, requests, last, fmt>>
    /\ UNCHANGED botVars

NextHkey == Tick \/ CallGenHkey

SpecHkey == InitHkey /\ [][NextHkey]_vars

UpperHex == Range(Digits) \cup {"A", "B", "C", "D", "E", "F"}

\* C1: gen_hkey is deterministic: two calls with the same path and the same
\* explicitly given timestamp, whenever they are made, return the same token and
\* echo the given timestamp; every token has exactly 10 characters, all of them
\* uppercase hexadecimal.
HkeyDeterministic ==
    /\ \A c1, c2 \in hkeyLog :
          (c1.path = c2.path /\ c1.timestamp = c2.timestamp /\ ~IsNone(c1.timestamp))
              => c1.result = c2.result
    /\ \A c \in hkeyLog :
          /\ ~IsNone(c.timestamp) => c.result.timestamp = c.timestamp.v
          /\ Len(c.result.hkey) = 10
          /\ Range(c.result.hkey) \subseteq UpperHex

\* two calls with the same path and explicit timestamp 0, made at different times
HkeyRepeated ==
    \E c1, c2 \in hkeyLog :
        /\ c1.at # c2.at
        /\ c1.path = c2.path
        /\ c1.timestamp = PyInt(0)
        /\ c2.timestamp = PyInt(0)

\* the pipeline of the gen_hkey documentation, the substitution written as one
\* pass that maps each character to its replacement
RECURSIVE RefSubstitute(_)
RefSubstitute(s) ==
    IF Len(s) = 0 THEN <<>>
    ELSE IF Len(s) = 1 THEN (IF s[1] \in {"a", "0"} THEN <<"a", "p", "p">> ELSE s)
    ELSE RefSubstitute(SubSeq(s, 1, Len(s) \div 2))
            \o RefSubstitute(SubSeq(s, (Len(s) \div 2) + 1, Len(s)))

RefHkey(p, t) ==
    LET raw == p \o <<"/", "b", "f", "h", "d", "k", "u", "d", "_", "t", "i", "m", "e", "=">>
                 \o IntToChars(t)
        digest == _md5(RefSubstitute(_md5(raw)))
    IN  [i \in 1..10 |-> UpperChar(digest[i])]

IsRelativePath(p) == ~StartsWith(p, Http)

\* C2: for a relative path p and a timestamp t, gen_hkey(p, t) is the first 10
\* characters, upper-cased, of H(step2), where step2 is H(p + "/bfhdkud_time=" + t)
\* with every 'a' and every '0' replaced by "app" and nothing replaced twice.
HkeyIsReferencePipeline ==
    \A c \in hkeyLog :
        (IsRelativePath(c.path) /\ ~IsNone(c.timestamp))
            => c.result.hkey = RefHkey(c.path, c.timestamp.v)

\* a signed relative path whose first digest holds both an 'a' and a '0'
HkeySubstitutionApplied ==
    \E c \in hkeyLog :
        /\ IsRelativePath(c.path)
        /\ ~IsNone(c.timestamp)
        /\ {"a", "0"} \subseteq
               Range(_md5(c.path \o HkeyMarker \o IntToChars(c.timestamp.v)))

(***************************************************************************)
(* The display formatters called on their own: the argument is drawn when  *)
(* the call is set up, the action applies the formatter to it.             *)
(***************************************************************************)
Pending == [kind |-> "pending"]

\* an amount of fen as an int, as its decimal text, and as that text with a leading zero
PriceCalls ==
    { [fn |-> "price_fen_to_yuan", amount |-> n, arg |-> x, res |-> Pending] :
        <<n, x>> \in { <<m, PyInt(m)>> : m \in 0..MaxFen }
                     \cup { <<m, PyChars(IntToChars(m))>> : m \in 0..MaxFen }
                     \cup { <<m, PyChars(<<"0">> \o IntToChars(m))>> : m \in 0..MaxFen } }

\* scores around the documented range 0..100, as ints
ScoreMargin == 5
ScoreCalls ==
    { [fn |-> "get_review_label", amount |-> n, arg |-> PyInt(n), res |-> Pending] :
        n \in (0 - ScoreMargin)..(100 + ScoreMargin) }

InitFmt ==
    /\ now = Epoch
    /\ hkeyLog = {}
    /\ client = XhhRequest("12345678", "pkey1", "token1")
    /\ calls = 0
    /\ requests = 0
    /\ last = Idle
    /\ fmt \in PriceCalls \cup ScoreCalls
    /\ BotAtRest

\* XhhUtil.price_fen_to_yuan(price_fen) is called
CallPriceFenToYuan ==
    /\ fmt.fn = "price_fen_to_yuan"
    /\ fmt.res = Pending
    /\ fmt' = [fmt EXCEPT !.res = price_fen_to_yuan(fmt.arg)]
    /\ UNCHANGED <<now, hkeyLog, client, calls, requests, last>>
    /\ UNCHANGED botVars

\* XhhUtil.get_review_label(score) is called
CallGetReviewLabel ==
    /\ fmt.fn = "get_review_label"
    /\ fmt.res = Pending
    /\ fmt' = [fmt EXCEPT !.res = get_review_label(fmt.arg)]
    /\ UNCHANGED <<now, hkeyLog, client, calls, requests, last>>
    /\ UNCHANGED botVars

NextFmt == CallPriceFenToYuan \/ CallGetReviewLabel

SpecFmt == InitFmt /\ [][NextFmt]_vars

(***************************************************************************)
(* The client against an upstream that keeps the day's check-in state.     *)
(* checkin's docstring states the behaviour it relies on: the server signs *)
(* the account in on the first GET of /task/stats/ of the day.  Whether    *)
(* the answer to that first GET shows the state before or after the        *)
(* sign-in is the upstream's choice; later answers show sign_in = 1.       *)
(***************************************************************************)
MaxDayCalls == 3

\* the accounts for which a GET of /task/stats/ is among the requests
Accessed(sent) ==
    { sent[i].params.v["heybox_id"].v :
        i \in {j \in DOMAIN sent : sent[j].verb = "GET" /\ sent[j].path = ApiPath.TASK_STATS} }

\* the answers the upstream may give to a GET of /task/stats/ of the account
TaskAnswers(id) ==
    { Response(200, OkEnvelope(PyDict(TaskState(s)))) :
        s \in IF id \in day.signed THEN {1} ELSE {0, 1} }

InitDay ==
    /\ now = Epoch
    /\ hkeyLog = {}
    /\ client \in Clients
    /\ calls = 0
    /\ requests = 0
    /\ last = Idle
    /\ fmt = [fn |-> "none"]
    /\ BotAtRest

\* the task method m is called; the upstream signs in every account whose GET
\* of /task/stats/ it receives.  The call keeps the state of the day it found.
DayCall(m) ==
    /\ ~Busy
    /\ calls < MaxDayCalls
    /\ last' \in { Done(m, a, now, outcome, Invoke(m, client, a, now, outcome))
                        @@ [found |-> day] :
                    a \in ArgumentsOf(m), outcome \in TaskAnswers(client.heybox_id) }
    /\ day' = [ signed |-> day.signed \cup Accessed(last'.sent),
                checkins |-> IF m = "checkin" THEN day.checkins \cup {client.heybox_id}
                             ELSE day.checkins ]
    /\ requests' = requests + Len(last'.sent)
    /\ calls' = calls + 1
    /\ UNCHANGED <<now, hkeyLog, client, fmt, db, chat>>

\* await api.checkin()
DayCheckin == DayCall("checkin")

\* await api.get_task_stats()
DayTaskStats == DayCall("get_task_stats")

\* the day ends at the upstream: nobody is signed in yet
Midnight ==
    /\ ~Busy
    /\ day # NoDay
    /\ day' = NoDay
    /\ UNCHANGED <<now, hkeyLog, client, calls, requests, last, fmt, db, chat>>

NextDay == Tick \/ DayCheckin \/ DayTaskStats \/ Midnight \/ Resume

SpecDay == InitDay /\ [][NextDay]_vars

(***************************************************************************)
(* xhh_user/utils.py: the credential text.  A text is a sequence of        *)
(* characters; "LF" stands for the line feed and "TAB" for the tabulator.  *)
(***************************************************************************)
Blank == {" ", "LF", "TAB"}

\* str.strip()
Strip(s) ==
    LET kept == {i \in DOMAIN s : s[i] \notin Blank}
    IN  IF kept = {} THEN <<>>
        ELSE SubSeq(s, CHOOSE i \in kept : \A j \in kept : i <= j,
                       CHOOSE i \in kept : \A j \in kept : j <= i)

\* str.split(c): the pieces between the occurrences of c, empty ones included
RECURSIVE Split(_, _)
Split(s, c) ==
    IF Find(s, c, 1) = 0 THEN <<s>>
    ELSE <<SubSeq(s, 1, Find(s, c, 1) - 1)>> \o Split(SubSeq(s, Find(s, c, 1) + 1, Len(s)), c)

\* str.splitlines(): no line for the empty text, none after a final line feed
splitlines(s) ==
    IF s = <<>> THEN <<>>
    ELSE IF s[Len(s)] = "LF" THEN Split(SubSeq(s, 1, Len(s) - 1), "LF")
    ELSE Split(s, "LF")

LowerChar(c) ==
    IF c \in Range(UpperCase) THEN LowerCase[IndexIn(UpperCase, c)] ELSE c

\* str.lower()
Lower(s) == [i \in DOMAIN s |-> LowerChar(s[i])]

\* the stripped parts of the lines, cut at ";", that are not empty
RECURSIVE Segments(_)
Segments(lines) ==
    IF lines = <<>> THEN <<>>
    ELSE SelectSeq([i \in DOMAIN Split(Head(lines), ";") |-> Strip(Split(Head(lines), ";")[i])],
                   LAMBDA part : part # <<>>)
         \o Segments(Tail(lines))

\* the names a field goes by: the app's and the browser's
FieldNames ==
    [ heybox_id |->
        <<<<"h", "e", "y", "b", "o", "x", "_", "i", "d">>,
          <<"u", "s", "e", "r", "_", "h", "e", "y", "b", "o", "x", "_", "i", "d">>>>,
      pkey |->
        <<<<"p", "k", "e", "y">>,
          <<"u", "s", "e", "r", "_", "p", "k", "e", "y">>>>,
      x_xhh_tokenid |->
        <<<<"x", "_", "x", "h", "h", "_", "t", "o", "k", "e", "n", "i", "d">>,
          <<"u", "s", "e", "r", "_", "x", "_", "x", "h", "h", "_", "t", "o", "k", "e", "n",
          "i", "d">>>> ]

\* "key, _, value = seg.partition("=")" and the three branches: the first value
\* that is not empty is kept
Taken(credential, seg) ==
    LET cut == Find(seg, "=", 1)
        key == Lower(Strip(SubSeq(seg, 1, cut - 1)))
        value == Strip(SubSeq(seg, cut + 1, Len(seg)))
        hit == {f \in DOMAIN FieldNames : key \in Range(FieldNames[f])}
    IN  IF cut = 0 \/ hit = {} THEN credential
        ELSE IF credential[CHOOSE f \in hit : TRUE] # <<>> THEN credential
        ELSE [credential EXCEPT ![CHOOSE f \in hit : TRUE] = value]

RECURSIVE TakenAll(_, _)
TakenAll(credential, segments) ==
    IF segments = <<>> THEN credential
    ELSE TakenAll(Taken(credential, Head(segments)), Tail(segments))

parse_xhh_credential(text) ==
    TakenAll([heybox_id |-> <<>>, pkey |-> <<>>, x_xhh_tokenid |-> <<>>],
             Segments(splitlines(text)))

\* the fields in the order of the dict
CredentialFields == <<"heybox_id", "pkey", "x_xhh_tokenid">>

\* [k for k, v in credential.items() if not v]
_missing_fields(credential) == SelectSeq(CredentialFields, LAMBDA k : credential[k] = <<>>)

\* texts sent after the command
CredentialTexts ==
    {
      \* the two lines the help message shows
      <<"h", "e", "y", "b", "o", "x", "_", "i", "d", "=", "1", "2", "LF", "p", "k", "e",
        "y", "=", "a", "b">>,
      \* the three fields, one a line, after the line of the command
      <<"LF", "h", "e", "y", "b", "o", "x", "_", "i", "d", "=", "1", "2", "LF", "p", "k",
        "e", "y", "=", "a", "b", "LF", "x", "_", "x", "h", "h", "_", "t", "o", "k", "e",
        "n", "i", "d", "=", "t", "1">>,
      \* a Cookie string
      <<"h", "e", "y", "b", "o", "x", "_", "i", "d", "=", "3", "4", ";", " ", "p", "k",
        "e", "y", "=", "c", "d", ";", " ", "x", "_", "x", "h", "h", "_", "t", "o", "k", "e",
        "n", "i", "d", "=", "t", "2", ";", " ", "o", "t", "h", "e", "r", "=", "v", "a",
        "l">>,
      \* the names a browser uses
      <<"u", "s", "e", "r", "_", "h", "e", "y", "b", "o", "x", "_", "i", "d", "=", "1",
        "2", ";", "u", "s", "e", "r", "_", "p", "k", "e", "y", "=", "e", "f", ";", "u", "s",
        "e", "r", "_", "x", "_", "x", "h", "h", "_", "t", "o", "k", "e", "n", "i", "d", "=",
        "t", "1">>,
      \* capitals and blanks around the names and values
      <<" ", "H", "e", "y", "B", "o", "x", "_", "I", "D", " ", "=", " ", "1", "2", " ",
        "LF", " ", "P", "K", "E", "Y", " ", "=", " ", "a", "b", " ", "LF", "X", "_", "X",
        "H", "H", "_", "T", "O", "K", "E", "N", "I", "D", "=", "t", "1">>,
      \* a field given twice
      <<"h", "e", "y", "b", "o", "x", "_", "i", "d", "=", "1", "2", "LF", "h", "e", "y",
        "b", "o", "x", "_", "i", "d", "=", "3", "4", "LF", "p", "k", "e", "y", "=", "a",
        "b", "LF", "x", "_", "x", "h", "h", "_", "t", "o", "k", "e", "n", "i", "d", "=",
        "t", "1">>,
      \* a field with an empty value
      <<"h", "e", "y", "b", "o", "x", "_", "i", "d", "=", "LF", "p", "k", "e", "y", "=",
        "a", "b", "LF", "x", "_", "x", "h", "h", "_", "t", "o", "k", "e", "n", "i", "d",
        "=", "t", "1">>,
      \* a value with an equals sign
      <<"p", "k", "e", "y", "=", "a", "=", "b", ";", "h", "e", "y", "b", "o", "x", "_",
        "i", "d", "=", "3", "4", ";", "x", "_", "x", "h", "h", "_", "t", "o", "k", "e", "n",
        "i", "d", "=", "t", "2">>,
      \* no field at all
      <<"h", "e", "l", "l", "o">>,
      \* nothing
      <<>> }

(***************************************************************************)
(* utils/database/models.py: the tables.  db.bind holds the heybox_ids     *)
(* bound to the chat user, the one in use first; db.users holds the rows   *)
(* of XHHUser in the order they were inserted.  Bind and User are classes  *)
(* of the host framework: their methods are given by what the handlers     *)
(* expect of them (the return codes the handlers tell apart).              *)
(***************************************************************************)
\* XHHBind.insert_uid(qid, bot_id, uid, is_digit=False): 0, -2 when bound already
insert_uid(bind, uid) ==
    IF uid \in Range(bind) THEN [code |-> -2, bind |-> bind]
    ELSE [code |-> 0, bind |-> Append(bind, uid)]

\* XHHBind.get_uid_by_game(qid, bot_id): the heybox_id in use, None without one
get_uid_by_game(bind) == IF bind = <<>> THEN PyNone ELSE PyChars(bind[1])

\* XHHBind.switch_uid_by_game(qid, bot_id, uid): 0 and uid comes first, -3 with
\* fewer than two heybox_ids bound, -2 when uid is not among them
switch_uid_by_game(bind, uid) ==
    IF Len(bind) < 2 THEN [code |-> -3, bind |-> bind]
    ELSE IF uid \notin Range(bind) THEN [code |-> -2, bind |-> bind]
    ELSE [code |-> 0, bind |-> <<uid>> \o SelectSeq(bind, LAMBDA x : x # uid)]

\* XHHBind.delete_uid(qid, bot_id, uid): 0, -1 when uid is not bound
delete_uid(bind, uid) ==
    IF uid \notin Range(bind) THEN [code |-> -1, bind |-> bind]
    ELSE [code |-> 0, bind |-> SelectSeq(bind, LAMBDA x : x # uid)]

\* XHHUser.insert_user: cls.insert_data(user_id, bot_id, uid, pkey, cookie="",
\* stoken=x_xhh_tokenid); the row of the same user, bot and uid is replaced
UserRow(bot_id, data) ==
    [ user_id |-> data.user_id, bot_id |-> bot_id, uid |-> data.uid, pkey |-> data.pkey,
      cookie |-> <<>>, stoken |-> data.x_xhh_tokenid ]

SameKey(a, b) == a.user_id = b.user_id /\ a.bot_id = b.bot_id /\ a.uid = b.uid

insert_user(users, row) ==
    IF \E i \in DOMAIN users : SameKey(users[i], row)
    THEN [i \in DOMAIN users |-> IF SameKey(users[i], row) THEN row ELSE users[i]]
    ELSE Append(users, row)

\* the first row that satisfies Test, None without one
FirstRow(users, Test(_)) ==
    IF \E i \in DOMAIN users : Test(users[i])
    THEN users[CHOOSE i \in DOMAIN users : Test(users[i]) /\ \A j \in 1..(i - 1) : ~Test(users[j])]
    ELSE PyNone

\* XHHUser.select_data_by_uid: the row of the heybox_id
select_data_by_uid(users, uid) ==
    FirstRow(users, LAMBDA row : uid # PyNone /\ row.uid = uid.v)

\* XHHUser.select_data(qq_id): the first row of the chat user
select_data(users, qq_id) == FirstRow(users, LAMBDA row : row.user_id = qq_id)

\* getattr(obj, name, default)
getattr(obj, name, default) == IF name \in DOMAIN obj THEN obj[name] ELSE default

(***************************************************************************)
(* XhhRequest: construction and the async context manager.                 *)
(* __init__ assigns the fields and then builds the HTTP client from        *)
(* self.client.cookies, an attribute of self that nothing has assigned.    *)
(***************************************************************************)
XhhApi(heybox_id, pkey, x_xhh_tokenid) ==
    LET self == XhhRequest(heybox_id, pkey, x_xhh_tokenid)
    IN  IF "client" \in DOMAIN self
        THEN Return(self @@ [http |-> [open |-> TRUE, cookies |-> self.client.cookies]])
        ELSE Raise("AttributeError")

\* close(): await self.client.aclose()
close(self) == [self EXCEPT !.http.open = FALSE]

\* __aenter__ returns self, __aexit__ awaits close()
__aenter__(self) == self
__aexit__(self) == close(self)

(***************************************************************************)
(* The chat commands.  A handler is given the event and the tables; it     *)
(* gives the tables it leaves and what it did, in order: the calls of the  *)
(* data access, the messages sent with bot.send, the exception it raised.  *)
(***************************************************************************)
Did(op, arg) == [op |-> op, arg |-> arg]
Send(msg, text) == Did("send", [msg |-> msg, text |-> text])
Handled(tables, did) == [db |-> tables, did |-> did]

\* send_diff_msg(bot, code, data): the message of the code
send_diff_msg(code, uid) ==
    CASE code = 0 -> <<Send("done", uid)>>
      [] code = -1 -> <<Send("no such heybox_id", uid)>>
      [] code = -2 -> <<Send("bound already", uid)>>
      [] OTHER -> <<>>

\* xhh_user.manage_uid: "绑定" (bind), "切换" (switch), "删除" (delete)
BindUid(d, uid, r) ==
    Handled([d EXCEPT !.bind = r.bind], <<Did("insert_uid", uid)>> \o send_diff_msg(r.code, uid))

SwitchUid(d, uid, r) ==
    IF r.code = 0
    THEN Handled([d EXCEPT !.bind = r.bind], <<Did("switch_uid_by_game", uid), Send("switched", uid)>>)
    ELSE IF r.code = -3
    THEN Handled(d, <<Did("switch_uid_by_game", uid), Did("get_uid_by_game", <<>>),
                      IF get_uid_by_game(d.bind) # PyNone
                      THEN Send("only one bound", get_uid_by_game(d.bind).v)
                      ELSE Send("none bound", <<>>)>>)
    ELSE Handled(d, <<Did("switch_uid_by_game", uid), Send("not bound", uid)>>)

DeleteUid(d, now_uid) ==
    IF now_uid = PyNone
    THEN Handled(d, <<Did("get_uid_by_game", <<>>), Send("none bound", <<>>)>>)
    ELSE Handled([d EXCEPT !.bind = delete_uid(d.bind, now_uid.v).bind],
                 <<Did("get_uid_by_game", <<>>), Did("delete_uid", now_uid.v)>>
                     \o send_diff_msg(delete_uid(d.bind, now_uid.v).code, now_uid.v))

manage_uid(ev, d) ==
    CASE ev.command = "bind" ->
             IF Strip(ev.text) = <<>> THEN Handled(d, <<Send("bind usage", <<>>)>>)
             ELSE BindUid(d, Strip(ev.text), insert_uid(d.bind, Strip(ev.text)))
      [] ev.command = "switch" ->
             SwitchUid(d, Strip(ev.text), switch_uid_by_game(d.bind, Strip(ev.text)))
      [] ev.command = "delete" -> DeleteUid(d, get_uid_by_game(d.bind))

\* '、'.join(missing)
RECURSIVE Joined(_)
Joined(names) ==
    IF names = <<>> THEN <<>>
    ELSE IF Len(names) = 1 THEN FieldNames[names[1]][1]
    ELSE FieldNames[names[1]][1] \o <<",">> \o Joined(Tail(names))

\* the credential stored whether it is complete or not
StoredUnchecked(ev, d, credential) ==
    Handled([ users |-> insert_user(d.users,
                                    UserRow(ev.bot_id,
                                            [ user_id |-> ev.user_id,
                                              group_id |-> ev.group_id,
                                              uid |-> credential.heybox_id,
                                              pkey |-> credential.pkey,
                                              x_xhh_tokenid |-> credential.x_xhh_tokenid ])),
              bind |-> insert_uid(d.bind, credential.heybox_id).bind ],
            << Did("insert_user", credential.heybox_id),
               Did("insert_uid", credential.heybox_id),
               Send("credential added", credential.heybox_id) >>)

\* add_ck from "missing = _missing_fields(credential)" on
Stored(ev, d, credential) ==
    IF _missing_fields(credential) # <<>>
    THEN Handled(d, <<Send("credential incomplete", Joined(_missing_fields(credential)))>>)
    ELSE Handled([ users |-> insert_user(d.users,
                                         UserRow(ev.bot_id,
                                                 [ user_id |-> ev.user_id,
                                                   group_id |-> ev.group_id,
                                                   uid |-> credential.heybox_id,
                                                   pkey |-> credential.pkey,
                                                   x_xhh_tokenid |-> credential.x_xhh_tokenid ])),
                   bind |-> insert_uid(d.bind, credential.heybox_id).bind ],
                 << Did("insert_user", credential.heybox_id),
                    Did("insert_uid", credential.heybox_id),
                    Send("credential added", credential.heybox_id) >>)

\* xhh_user.add_ck
add_ck(ev, d) == Stored(ev, d, parse_xhh_credential(Strip(ev.text)))

\* "[XHH] 你的登录凭据（请勿泄露给他人）：\n\nheybox_id={heybox_id}\npkey={pkey}"
CredentialText(heybox_id, pkey) ==
    <<"[", "X", "H", "H", "]", " ", "c", "r", "e", "d", "e", "n", "t", "i", "a", "l", ":",
      "LF", "LF">>
        \o FieldNames.heybox_id[1] \o <<"=">> \o heybox_id \o <<"LF">>
        \o FieldNames.pkey[1] \o <<"=">> \o pkey

\* export_ck from "if user_info is None" on
Exported(d, uid, user_info) ==
    Handled(d, << Did("get_uid_by_game", <<>>),
                  Did("select_data_by_uid", <<>>),
                  IF user_info = PyNone THEN Send("no credential", <<>>)
                  ELSE IF getattr(user_info, "pkey", <<>>) = <<>>
                  THEN Send("stored credential incomplete", <<>>)
                  ELSE Send("credential", CredentialText(getattr(user_info, "heybox_id", <<>>),
                                                         getattr(user_info, "pkey", <<>>))) >>)

\* the handler without "if ev.group_id is not None"
export_ck_anywhere(ev, d) ==
    Exported(d, get_uid_by_game(d.bind), select_data_by_uid(d.users, get_uid_by_game(d.bind)))

\* xhh_user.export_ck
export_ck(ev, d) ==
    IF ev.group_id # PyNone THEN Handled(d, <<Send("private chat only", <<>>)>>)
    ELSE Exported(d, get_uid_by_game(d.bind),
                  select_data_by_uid(d.users, get_uid_by_game(d.bind)))

\* xhh_sign.sign._get_api: the calls made and the client, None, or the exception
WithCredential(heybox_id, user_info) ==
    IF user_info = PyNone THEN Return(PyNone)
    ELSE IF getattr(user_info, "pkey", <<>>) = <<>> THEN Return(PyNone)
    ELSE XhhApi(heybox_id.v, user_info.pkey, getattr(user_info, "stoken", <<>>))

\* the constructor is called, with the heybox_id, the pkey and the token given
Constructed(heybox_id, user_info) ==
    IF user_info = PyNone \/ getattr(user_info, "pkey", <<>>) = <<>> THEN <<>>
    ELSE <<Did("XhhApi", <<heybox_id.v, user_info.pkey, getattr(user_info, "stoken", <<>>)>>)>>

_get_api(qq_id, bot_id, d) ==
    IF get_uid_by_game(d.bind) = PyNone
    THEN [did |-> <<Did("get_uid_by_game", <<>>)>>, api |-> Return(PyNone)]
    ELSE [did |-> <<Did("get_uid_by_game", <<>>), Did("select_data", <<>>)>>
                      \o Constructed(get_uid_by_game(d.bind), select_data(d.users, qq_id)),
          api |-> WithCredential(get_uid_by_game(d.bind), select_data(d.users, qq_id))]

\* "async with api: result = await api.get_task_stats()" and the message
Queried(d, did, api, result) ==
    IF Raised(result)
    THEN Handled(d, did \o <<Did("__aenter__", <<>>), Did("get_task_stats", <<>>),
                             Did("close", <<>>), Did("raise", <<>>)>>)
    ELSE Handled(d, did \o <<Did("__aenter__", <<>>), Did("get_task_stats", <<>>),
                             Did("close", <<>>),
                             IF Truthy(Get(result.value, "status", PyNone))
                             THEN Send("task state", <<>>)
                             ELSE Send("query failed", <<>>)>>)

\* xhh_sign.sign.query_task_stats
query_task_stats(ev, d, clock, outcome) ==
    LET got == _get_api(ev.user_id, ev.bot_id, d)
    IN  IF Raised(got.api)
        THEN Handled(d, got.did \o <<Did("raise", <<>>)>>)
        ELSE IF got.api.value = PyNone
        THEN Handled(d, got.did \o <<Send("no credential found", <<>>)>>)
        ELSE Queried(d, got.did, got.api.value,
                     Invoke("get_task_stats", __aenter__(got.api.value), PyNone, clock,
                            outcome).result)

\* do_checkin from "async with api: result = await api.checkin()" on: the success
\* message, the failure message with the state when data is not empty, the
\* bare failure message
CheckedIn(d, did, api, result) ==
    IF Raised(result)
    THEN Handled(d, did \o <<Did("__aenter__", <<>>), Did("checkin", <<>>),
                             Did("close", <<>>), Did("raise", <<>>)>>)
    ELSE Handled(d, did \o <<Did("__aenter__", <<>>), Did("checkin", <<>>),
                             Did("close", <<>>),
                             IF Truthy(Get(result.value, "status", PyNone))
                             THEN Send("signed in", <<>>)
                             ELSE IF Truthy(Get(result.value, "data", EmptyDict))
                             THEN Send("check-in failed, state follows", <<>>)
                             ELSE Send("check-in failed", <<>>)>>)

\* xhh_sign.sign.do_checkin
do_checkin(ev, d, clock, outcome) ==
    LET got == _get_api(ev.user_id, ev.bot_id, d)
    IN  IF Raised(got.api)
        THEN Handled(d, got.did \o <<Did("raise", <<>>)>>)
        ELSE IF got.api.value = PyNone
        THEN Handled(d, got.did \o <<Send("no credential found", <<>>)>>)
        ELSE CheckedIn(d, got.did, got.api.value,
                       Invoke("checkin", __aenter__(got.api.value), PyNone, clock,
                              outcome).result)

\* XHHBind.get_uid_list_by_game(qq_id, bot_id): the heybox_ids bound, in order
get_uid_list_by_game(bind) == bind

\* XHHUser.get_user_stoken_by_uid(heybox_id): the stoken of the row, None without one
get_user_stoken_by_uid(users, uid) ==
    IF select_data_by_uid(users, PyChars(uid)) = PyNone THEN PyNone
    ELSE PyChars(select_data_by_uid(users, PyChars(uid)).stoken)

\* the line of a result, and the line of an account
ResultLine(heybox_id, result) ==
    IF Raised(result) THEN [uid |-> heybox_id, line |-> "exception"]
    ELSE IF Truthy(Get(result.value, "status", PyNone))
    THEN [uid |-> heybox_id, line |-> "signed in"]
    ELSE [uid |-> heybox_id, line |-> "failed"]

\* the try block of do_all_checkin: the constructor, "async with", checkin; an
\* exception of any of them is caught
Tried(heybox_id, api, clock, outcome) ==
    IF Raised(api) THEN [did |-> <<>>, line |-> [uid |-> heybox_id, line |-> "exception"]]
    ELSE [did |-> <<Did("__aenter__", heybox_id), Did("checkin", heybox_id),
                    Did("close", heybox_id)>>,
          line |-> ResultLine(heybox_id,
                              Invoke("checkin", __aenter__(api.value), PyNone, clock,
                                     outcome).result)]

\* one turn of "for heybox_id in uid_list"
Turn(heybox_id, user_info, x_xhh_tokenid, clock, outcome) ==
    IF user_info = PyNone \/ getattr(user_info, "pkey", <<>>) = <<>>
          \/ x_xhh_tokenid = PyNone \/ x_xhh_tokenid = PyChars(<<>>)
    THEN [did |-> <<Did("select_data_by_uid", heybox_id),
                    Did("get_user_stoken_by_uid", heybox_id)>>,
          line |-> [uid |-> heybox_id, line |-> "no credential"]]
    ELSE [did |-> <<Did("select_data_by_uid", heybox_id),
                    Did("get_user_stoken_by_uid", heybox_id),
                    Did("XhhApi", <<heybox_id, user_info.pkey, x_xhh_tokenid.v>>)>>
                      \o Tried(heybox_id, XhhApi(heybox_id, user_info.pkey, x_xhh_tokenid.v),
                               clock, outcome).did,
          line |-> Tried(heybox_id, XhhApi(heybox_id, user_info.pkey, x_xhh_tokenid.v),
                         clock, outcome).line]

\* the loop left at the first exception instead of going on
RECURSIVE TurnsUntilException(_, _, _, _)
TurnsUntilException(d, uid_list, clock, outcome) ==
    IF uid_list = <<>> THEN [did |-> <<>>, lines |-> <<>>]
    ELSE IF Turn(Head(uid_list), select_data_by_uid(d.users, PyChars(Head(uid_list))),
                 get_user_stoken_by_uid(d.users, Head(uid_list)), clock, outcome).line.line
              = "exception"
    THEN [did |-> Turn(Head(uid_list), select_data_by_uid(d.users, PyChars(Head(uid_list))),
                       get_user_stoken_by_uid(d.users, Head(uid_list)), clock, outcome).did,
          lines |-> <<Turn(Head(uid_list),
                           select_data_by_uid(d.users, PyChars(Head(uid_list))),
                           get_user_stoken_by_uid(d.users, Head(uid_list)), clock,
                           outcome).line>>]
    ELSE [did |-> Turn(Head(uid_list), select_data_by_uid(d.users, PyChars(Head(uid_list))),
                       get_user_stoken_by_uid(d.users, Head(uid_list)), clock, outcome).did
                      \o TurnsUntilException(d, Tail(uid_list), clock, outcome).did,
          lines |-> <<Turn(Head(uid_list),
                           select_data_by_uid(d.users, PyChars(Head(uid_list))),
                           get_user_stoken_by_uid(d.users, Head(uid_list)), clock,
                           outcome).line>>
                        \o TurnsUntilException(d, Tail(uid_list), clock, outcome).lines]

\* "for heybox_id in uid_list": what the turns did and the lines they appended
RECURSIVE Turns(_, _, _, _)
Turns(d, uid_list, clock, outcome) ==
    IF uid_list = <<>> THEN [did |-> <<>>, lines |-> <<>>]
    ELSE [did |-> Turn(Head(uid_list), select_data_by_uid(d.users, PyChars(Head(uid_list))),
                       get_user_stoken_by_uid(d.users, Head(uid_list)), clock, outcome).did
                      \o Turns(d, Tail(uid_list), clock, outcome).did,
          lines |-> <<Turn(Head(uid_list),
                           select_data_by_uid(d.users, PyChars(Head(uid_list))),
                           get_user_stoken_by_uid(d.users, Head(uid_list)), clock,
                           outcome).line>>
                        \o Turns(d, Tail(uid_list), clock, outcome).lines]

\* xhh_sign.sign.do_all_checkin
do_all_checkin(ev, d, clock, outcome) ==
    IF get_uid_list_by_game(d.bind) = <<>>
    THEN Handled(d, <<Did("get_uid_list_by_game", <<>>), Send("none bound", <<>>)>>)
    ELSE Handled(d, <<Did("get_uid_list_by_game", <<>>)>>
                        \o Turns(d, get_uid_list_by_game(d.bind), clock, outcome).did
                        \o <<Send("all results",
                                  Turns(d, get_uid_list_by_game(d.bind), clock, outcome).lines)>>)

(***************************************************************************)
(* The chat: one user talks to the bot, in private or in a group.          *)
(***************************************************************************)
ChatUser == "qq1"
Bot == "bot1"
Groups == {PyNone, PyInt(10001)}

Event(command, group_id, text) ==
    [user_id |-> ChatUser, bot_id |-> Bot, group_id |-> group_id, command |-> command,
     text |-> text]

\* the heybox_ids given after "绑定" and "切换"
UidTexts == {<<>>, <<"1", "2">>, <<" ", "3", "4">>}

\* the text of the credential message, when the last command sent one
Pasted ==
    IF chat = Quiet THEN {}
    ELSE { chat.did[i].arg.text :
             i \in {j \in DOMAIN chat.did : /\ chat.did[j].op = "send"
                                              /\ chat.did[j].arg.msg = "credential"} }

InitBot ==
    /\ now = Epoch
    /\ hkeyLog = {}
    /\ client = XhhRequest("12345678", "pkey1", "token1")
    /\ calls = 0
    /\ requests = 0
    /\ last = Idle
    /\ fmt = [fn |-> "none"]
    /\ BotAtRest

\* the handler has run to its end: the tables it left, and what it did
Answered(handler, ev, handled) ==
    /\ db' = handled.db
    /\ chat' = [command |-> handler, ev |-> ev, did |-> handled.did]
    /\ UNCHANGED <<now, hkeyLog, client, calls, requests, last, fmt, day>>

ManageUid ==
    \E command \in {"bind", "switch", "delete"}, g \in Groups, text \in UidTexts :
        Answered("manage_uid", Event(command, g, text), manage_uid(Event(command, g, text), db))

AddCk ==
    \E g \in Groups, text \in CredentialTexts \cup Pasted :
        Answered("add_ck", Event("add_ck", g, text), add_ck(Event("add_ck", g, text), db))

ExportCk ==
    \E g \in Groups :
        Answered("export_ck", Event("export_ck", g, <<>>),
                 export_ck(Event("export_ck", g, <<>>), db))

QueryTaskStats ==
    \E g \in Groups, s \in {0, 1} :
        Answered("query_task_stats", Event("query_task_stats", g, <<>>),
                 query_task_stats(Event("query_task_stats", g, <<>>), db, now,
                                  Response(200, OkEnvelope(PyDict(TaskState(s))))))

DoCheckin ==
    \E g \in Groups, s \in {0, 1} :
        Answered("do_checkin", Event("do_checkin", g, <<>>),
                 do_checkin(Event("do_checkin", g, <<>>), db, now,
                            Response(200, OkEnvelope(PyDict(TaskState(s))))))

DoAllCheckin ==
    \E g \in Groups, s \in {0, 1} :
        Answered("do_all_checkin", Event("do_all_checkin", g, <<>>),
                 do_all_checkin(Event("do_all_checkin", g, <<>>), db, now,
                                Response(200, OkEnvelope(PyDict(TaskState(s))))))

NextBot == ManageUid \/ AddCk \/ ExportCk \/ QueryTaskStats \/ DoCheckin \/ DoAllCheckin

SpecBot == InitBot /\ [][NextBot]_vars

(***************************************************************************)
(* Properties of the client.                                               *)
(***************************************************************************)
FieldOf(d, k) == IF Has(d, k) THEN d.v[k] ELSE Absent
StatusOk(env) == FieldOf(env, "status") = PyStr("ok")

\* the message an envelope carries: its message field, else its msg field, else
\* the text made of its status
UpstreamMessage(env) ==
    IF Has(env, "message") THEN env.v["message"]
    ELSE IF Has(env, "msg") THEN env.v["msg"]
    ELSE PyStr(RequestFailed \o str(Get(env, "status", PyNone)))

Returned == Busy /\ last.result.kind = "return"
ResultField(k) == last.result.value.v[k]

NoFailureIsRaised ==
    (Busy /\ last.method \in Methods) =>
        /\ last.raw = IF last.outcome.kind = "exception" THEN ErrorObject(last.outcome.text)
                      ELSE IF last.outcome.code >= 400
                      THEN ErrorObject("HTTP " \o ToString(last.outcome.code))
                      ELSE IF ~last.outcome.json THEN ErrorObject(JSONDecodeError)
                      ELSE last.outcome.body
        /\ last.result.kind = "return"
        /\ (Failed(last.outcome) \/ ~IsDict(last.outcome.body))
              => ResultField("status") = PyBool(FALSE)

\* C5: every call hands exactly one request to the transport, whether the
\* request succeeds or fails: a failed request is followed by no other.
NothingIsRetried ==
    /\ requests = calls
    /\ Busy => Len(last.sent) = 1

\* a second call whose only request failed
FailedRequestSeen ==
    /\ Busy
    /\ last.method = "checkin"
    /\ Failed(last.outcome)
    /\ calls = 2

\* C6: every request sent through _signed_get or _signed_post carries hkey, _time
\* and heybox_id, heybox_id being the client's and hkey the signature of the
\* request's path and of the _time of the same request.
SignedRequestsCarrySignature ==
    Busy =>
        \A i \in DOMAIN last.sent :
            LET params == last.sent[i].params
            IN  /\ {"hkey", "_time", "heybox_id"} \subseteq DOMAIN params.v
                /\ params.v["heybox_id"] = PyStr(client.heybox_id)
                /\ params.v["_time"].t = "int"
                /\ params.v["hkey"] =
                      PyChars(gen_hkey(last.sent[i].path, params.v["_time"], now).hkey)

TaskFields == {"sign_in_streak", "coin", "exp", "max_exp", "task1", "task2"}

\* an envelope of the structure _parse_task_stats documents: status "ok", data an
\* object, sign_in 1 or 0, the other fields numbers where present
CheckinEnvelope(env) ==
    /\ IsDict(env)
    /\ StatusOk(env)
    /\ Has(env, "data")
    /\ IsDict(env.v["data"])
    /\ FieldOf(env.v["data"], "sign_in") \in {PyInt(0), PyInt(1)}
    /\ \A k \in TaskFields : FieldOf(env.v["data"], k).t \in {"absent", "int"}

ParsedTaskState(d) ==
    PyDict([ sign_in |-> PyBool(d.v["sign_in"] = PyInt(1)),
             sign_in_streak |-> Get(d, "sign_in_streak", PyInt(0)),
             coin |-> Get(d, "coin", PyInt(0)),
             exp |-> Get(d, "exp", PyInt(0)),
             max_exp |-> Get(d, "max_exp", PyInt(0)),
             share |-> PyBool(FieldOf(d, "task1") \notin {Absent, PyInt(0)}),
             like |-> PyBool(FieldOf(d, "task2") \notin {Absent, PyInt(0)}) ])

\* C7: a check-in call on an envelope with status "ok" gives a success when
\* data.sign_in is 1 and a failure with the message "今日已签到" when it is 0; in
\* both cases data is the parsed task state.
CheckinFollowsSignIn ==
    (Busy /\ last.method = "checkin" /\ CheckinEnvelope(last.raw)) =>
        /\ Returned
        /\ ResultField("data") = ParsedTaskState(last.raw.v["data"])
        /\ IF last.raw.v["data"].v["sign_in"] = PyInt(1)
           THEN ResultField("status") = PyBool(TRUE)
           ELSE /\ ResultField("status") = PyBool(FALSE)
                /\ ResultField("message") = PyStr(AlreadySigned)

\* a check-in answered with sign_in 0 and the other fields in place
CheckinAlreadySignedSeen ==
    /\ Busy
    /\ last.method = "checkin"
    /\ last.raw = OkEnvelope(PyDict(TaskState(0)))
    /\ ResultField("status") = PyBool(FALSE)

\* C8: with an envelope whose status is "ok", get_task_stats, checkin,
\* get_game_achievement and get_game_info never raise, whatever data and its
\* fields are (missing, null, not an object, not a number).
MalformedFieldsNeverFatal ==
    ( /\ Busy
      /\ last.method \in {"get_task_stats", "checkin", "get_game_achievement", "get_game_info"}
      /\ IsDict(last.raw)
      /\ StatusOk(last.raw) )
        => last.result.kind = "return"

\* C9: the result a public method returns is a mapping with exactly the keys
\* status, message and data: a boolean, a text and a mapping (never null, never
\* a list).
ResultIsUniform ==
    (Returned /\ last.method \in Methods) =>
        /\ IsDict(last.result.value)
        /\ DOMAIN last.result.value.v = {"status", "message", "data"}
        /\ ResultField("status").t = "bool"
        /\ ResultField("message").t = "str"
        /\ ResultField("data").t = "dict"

TwoDigits(n) == <<Digits[(n \div 10) + 1], Digits[(n % 10) + 1]>>

\* C10: price_fen_to_yuan gives "免费" for 0 and, for a positive amount n of fen,
\* "¥", n div 100, a dot and n mod 100 in two digits; the decimal text of an
\* amount gives what the amount gives.
PriceIsYuanAndFen ==
    (fmt.fn = "price_fen_to_yuan" /\ fmt.res # Pending) =>
        /\ fmt.amount = 0 => fmt.res = Return(PyChars(FreeMarker))
        /\ fmt.amount > 0 =>
              fmt.res = Return(PyChars(<<YuanSign>> \o NatToChars(fmt.amount \div 100)
                                        \o <<".">> \o TwoDigits(fmt.amount % 100)))

\* 4999 fen given as a text with a leading zero came out as "¥49.99"
PriceOfTextSeen ==
    /\ fmt.fn = "price_fen_to_yuan"
    /\ fmt.arg = PyChars(<<"0", "4", "9", "9", "9">>)
    /\ fmt.res = Return(PyChars(<<"U+00A5", "4", "9", ".", "9", "9">>))

(***************************************************************************)
(* Achievement progress.                                                   *)
(***************************************************************************)
\* the field of the data object of the answer, 0 when the object has none
AnsweredNumber(k) == NumberOf(Get(last.raw.v["data"], k, PyInt(0)))

\* an answer with status "ok" whose data holds total (0 or more) and achieved
\* as numbers, or leaves them out
AchievementAnswered ==
    /\ Busy
    /\ last.method = "get_game_achievement"
    /\ IsDict(last.raw)
    /\ StatusOk(last.raw)
    /\ IsDict(Get(last.raw, "data", PyNone))
    /\ \A k \in {"total", "achieved"} : IsNumber(Get(last.raw.v["data"], k, PyInt(0)))
    /\ AnsweredNumber("total") >= 0

\* num / den as a percentage with one decimal, in tenths of a percent, rounded
\* to the nearest tenth (a tie to the even one)
PerMille(num, den) ==
    LET twice == (2 * 1000 * num) \div den
        exact == (2 * 1000 * num) % den = 0
    IN  IF twice % 2 = 0 THEN twice \div 2
        ELSE IF exact /\ (twice \div 2) % 2 = 0 THEN twice \div 2
        ELSE twice \div 2 + 1

PercentText(tenths) == NatToChars(tenths \div 10) \o <<".", Digits[(tenths % 10) + 1], "%">>

\* C11: on a successful achievement answer get_game_achievement sets
\* data.progress to achieved / total * 100 with one decimal and a percent sign
\* when total > 0, and to "0.0%" when total is 0 or absent; it raises for no
\* total >= 0.
AchievementProgressIsPercentage ==
    AchievementAnswered =>
        /\ Returned
        /\ ResultField("status") = PyBool(TRUE)
        /\ ResultField("data").v["progress"] =
              IF AnsweredNumber("total") > 0
              THEN PyChars(PercentText(PerMille(AnsweredNumber("achieved"),
                                                AnsweredNumber("total"))))
              ELSE PyChars(<<"0", ".", "0", "%">>)

\* 30 of 50 achievements came out as "60.0%"
AchievementSixtyPercentSeen ==
    /\ AchievementAnswered
    /\ AnsweredNumber("total") = 50
    /\ AnsweredNumber("achieved") = 30
    /\ ResultField("data").v["progress"] = PyChars(<<"6", "0", ".", "0", "%">>)

(***************************************************************************)
(* Review labels.                                                          *)
(***************************************************************************)
ReviewLabelCalled == fmt.fn = "get_review_label" /\ fmt.res # Pending

\* the bands of REVIEW_SCORE_MAP that hold the score
BandsOf(n) ==
    {i \in DOMAIN REVIEW_SCORE_MAP : REVIEW_SCORE_MAP[i].lo <= n /\ n < REVIEW_SCORE_MAP[i].hi}

\* C12: get_review_label gives a score the label of the one band [lo, hi) of
\* REVIEW_SCORE_MAP that holds it: the six bands [0,20), [20,40), [40,70),
\* [70,80), [80,90), [90,100) never overlap, 85 gets the label of [80,90), 15 the
\* label of [0,20), and a lower bound belongs to its band, not to the band below.
ReviewLabelIsOfItsBand ==
    ReviewLabelCalled =>
        /\ {<<b.lo, b.hi>> : b \in Range(REVIEW_SCORE_MAP)} =
              {<<0, 20>>, <<20, 40>>, <<40, 70>>, <<70, 80>>, <<80, 90>>, <<90, 100>>}
        /\ Cardinality(BandsOf(fmt.amount)) <= 1
        /\ \A i \in BandsOf(fmt.amount) : fmt.res = Return(PyStr(REVIEW_SCORE_MAP[i].label))
        /\ fmt.amount \in 80..89 => fmt.res = Return(PyStr("very positive"))
        /\ fmt.amount \in 0..19 => fmt.res = Return(PyStr("overwhelmingly negative"))
        /\ \A i, j \in DOMAIN REVIEW_SCORE_MAP :
              (fmt.amount = REVIEW_SCORE_MAP[i].lo /\ REVIEW_SCORE_MAP[j].hi = fmt.amount)
                  => /\ fmt.res = Return(PyStr(REVIEW_SCORE_MAP[i].label))
                     /\ fmt.res # Return(PyStr(REVIEW_SCORE_MAP[j].label))

\* the score 80, the lower bound of [80,90), got the label of that band
ReviewLowerBoundSeen ==
    /\ ReviewLabelCalled
    /\ fmt.amount = 80
    /\ fmt.res = Return(PyStr("very positive"))

\* C13: get_review_label gives every integer score of 0..100, both ends
\* included, one of the six labels, and the text "unknown score(<score>)" only
\* to a score outside 0..100.
ReviewLabelCoversRange ==
    ReviewLabelCalled =>
        (fmt.amount \in 0..100 <=>
            fmt.res \in {Return(PyStr(b.label)) : b \in Range(REVIEW_SCORE_MAP)})

(***************************************************************************)
(* Check-in over a day.                                                    *)
(***************************************************************************)
\* the last call was made by the method m against the upstream of the day
DayCalled(m) == Busy /\ last.method = m /\ "found" \in DOMAIN last

\* C14: with an upstream that signs the account in on its first access to
\* /task/stats/ of the day, the first checkin call of a day returns status=True
\* with the message of a successful sign-in, and every later checkin call of the
\* day, the account being signed in already, returns status=False with the
\* message "already signed in today".
CheckinReportsTheDay ==
    DayCalled("checkin") =>
        /\ Returned
        /\ client.heybox_id \notin last.found.checkins =>
              /\ ResultField("status") = PyBool(TRUE)
              /\ ResultField("message") = PyStr(SignedInMessage(100, 7))
        /\ (client.heybox_id \in last.found.checkins /\ client.heybox_id \in last.found.signed) =>
              /\ ResultField("status") = PyBool(FALSE)
              /\ ResultField("message") = PyStr(AlreadySigned)

\* C15: get_task_stats only reads: after the call the accounts signed in at the
\* upstream are those that were signed in before it.
TaskStatsOnlyReads ==
    DayCalled("get_task_stats") => day.signed = last.found.signed

(***************************************************************************)
(* Properties of the chat commands.                                        *)
(***************************************************************************)
\* the last command handled was given to the handler
Commanded(handler) == chat # Quiet /\ chat.command = handler

\* what the handler did, by name, and the messages it sent
Ops(did) == [i \in DOMAIN did |-> did[i].op]
Sent(did) == [i \in DOMAIN SelectSeq(did, LAMBDA x : x.op = "send") |->
                 SelectSeq(did, LAMBDA x : x.op = "send")[i].arg]

\* the text holds the part
Contains(text, part) ==
    \E i \in 1..(Len(text) - Len(part) + 1) : SubSeq(text, i, i + Len(part) - 1) = part

\* C16: a client is constructed from an account's credentials, its HTTP client
\* open; the request is made inside "async with", and when the block is left
\* close() has been called exactly once: every construction in a handler is
\* followed by __aenter__, the request and one close.
ClientLifecycleAsDocumented ==
    Commanded("query_task_stats") =>
        \A i \in DOMAIN chat.did :
            chat.did[i].op = "XhhApi" =>
                /\ i + 3 <= Len(chat.did)
                /\ SubSeq(Ops(chat.did), i + 1, i + 3) = <<"__aenter__", "get_task_stats", "close">>
                /\ Cardinality({j \in DOMAIN chat.did : chat.did[j].op = "close"}) = 1

\* a text of two lines, heybox_id=<id> and pkey=<value>, neither empty
TwoLines(text) ==
    /\ Len(splitlines(Strip(text))) = 2
    /\ StartsWith(splitlines(Strip(text))[1], FieldNames.heybox_id[1] \o <<"=">>)
    /\ Len(splitlines(Strip(text))[1]) > Len(FieldNames.heybox_id[1]) + 1
    /\ StartsWith(splitlines(Strip(text))[2], FieldNames.pkey[1] \o <<"=">>)
    /\ Len(splitlines(Strip(text))[2]) > Len(FieldNames.pkey[1]) + 1

\* C17: add_ck accepts the format its help message shows, one line
\* heybox_id=<id> and one line pkey=<value>: it stores the credential and answers
\* with the success message, not with the message of an incomplete credential.
AddCkAcceptsDocumentedFormat ==
    (Commanded("add_ck") /\ TwoLines(chat.ev.text)) =>
        /\ \E i \in DOMAIN Sent(chat.did) : Sent(chat.did)[i].msg = "credential added"
        /\ \A i \in DOMAIN Sent(chat.did) : Sent(chat.did)[i].msg # "credential incomplete"
        /\ \E i \in DOMAIN db.users :
              SubSeq(splitlines(Strip(chat.ev.text))[2], 6, Len(splitlines(Strip(chat.ev.text))[2]))
                  = db.users[i].pkey

\* C18: the text export_ck sends in a private chat is accepted by add_ck, and
\* parse_xhh_credential finds in it the heybox_id and the pkey that are stored.
ExportedTextIsAccepted ==
    Commanded("export_ck") =>
        \A text \in Pasted :
            /\ parse_xhh_credential(text).heybox_id = get_uid_by_game(db.bind).v
            /\ parse_xhh_credential(text).pkey =
                  select_data_by_uid(db.users, get_uid_by_game(db.bind)).pkey
            /\ \E i \in DOMAIN Sent(add_ck(Event("add_ck", PyNone, text), db).did) :
                  Sent(add_ck(Event("add_ck", PyNone, text), db).did)[i].msg = "credential added"

\* C19: in a group export_ck sends the refusal and nothing else, reads no table,
\* and no message it sends holds a pkey of the tables.
ExportOnlyInPrivateChat ==
    (Commanded("export_ck") /\ chat.ev.group_id # PyNone) =>
        /\ Ops(chat.did) = <<"send">>
        /\ Sent(chat.did)[1].msg = "private chat only"
        /\ \A i \in DOMAIN Sent(chat.did), j \in DOMAIN db.users :
              ~Contains(Sent(chat.did)[i].text, db.users[j].pkey)

\* export_ck was refused in a group for a user whose credential is stored
ExportRefusedInGroup ==
    /\ Commanded("export_ck")
    /\ chat.ev.group_id # PyNone
    /\ select_data_by_uid(db.users, get_uid_by_game(db.bind)) # PyNone
    /\ Ops(chat.did) = <<"send">>

HasCredential(users, uid) ==
    \E i \in DOMAIN users : users[i].uid = uid /\ users[i].pkey # <<>> /\ users[i].stoken # <<>>

\* the handler made a check-in request for the account
RequestedFor(did, uid) == \E i \in DOMAIN did : did[i].op = "checkin" /\ did[i].arg = uid

LineKinds == {"no credential", "signed in", "failed", "exception"}

\* C21: do_all_checkin appends one line per bound account, in the order of
\* the list, each of the four kinds; an account without credentials gets the
\* no-credential line and no request; an exception on an account does not stop
\* the later ones; one message is sent, after the last account; with nothing
\* bound the only message is "none bound" and there is no request.
AllCheckinOneLinePerAccount ==
    Commanded("do_all_checkin") =>
        /\ Len(Sent(chat.did)) = 1
        /\ chat.did[Len(chat.did)].op = "send"
        /\ IF db.bind = <<>>
           THEN /\ Sent(chat.did)[1].msg = "none bound"
                /\ Ops(chat.did) = <<"get_uid_list_by_game", "send">>
           ELSE /\ Sent(chat.did)[1].msg = "all results"
                /\ Len(Sent(chat.did)[1].text) = Len(db.bind)
                /\ \A i \in DOMAIN db.bind :
                       /\ Sent(chat.did)[1].text[i].uid = db.bind[i]
                       /\ Sent(chat.did)[1].text[i].line \in LineKinds
                       /\ (Sent(chat.did)[1].text[i].line = "no credential")
                             = ~HasCredential(db.users, db.bind[i])
                       /\ ~HasCredential(db.users, db.bind[i])
                             => ~RequestedFor(chat.did, db.bind[i])

\* an account whose turn ended in an exception is followed by an account
\* without credentials, and both have their line
AllCheckinWentOnAfterException ==
    /\ Commanded("do_all_checkin")
    /\ Len(db.bind) = 2
    /\ Len(Sent(chat.did)) = 1
    /\ Len(Sent(chat.did)[1].text) = 2
    /\ Sent(chat.did)[1].text[1].line = "exception"
    /\ Sent(chat.did)[1].text[2].line = "no credential"

\* C22: do_checkin sends exactly one message: without a bound heybox_id, a row
\* or a pkey the "bind credentials first" message and no request; otherwise
\* one check-in request and the success message, the failure message with the
\* state, or the bare failure message.
CheckinSendsOneMessage ==
    Commanded("do_checkin") =>
        /\ Len(Sent(chat.did)) = 1
        /\ IF \/ db.bind = <<>>
              \/ select_data(db.users, ChatUser) = PyNone
              \/ select_data(db.users, ChatUser).pkey = <<>>
           THEN /\ Sent(chat.did)[1].msg = "no credential found"
                /\ \A i \in DOMAIN chat.did : chat.did[i].op # "checkin"
           ELSE /\ Cardinality({i \in DOMAIN chat.did : chat.did[i].op = "checkin"}) = 1
                /\ Sent(chat.did)[1].msg
                      \in {"signed in", "check-in failed, state follows", "check-in failed"}

\* C24: the heybox_id, pkey and x_xhh_tokenid with which do_checkin
\* constructs its client are those of one stored row, the row of the
\* heybox_id in use.
CheckinTripleBelongsTogether ==
    Commanded("do_checkin") =>
        \A i \in DOMAIN chat.did :
            chat.did[i].op = "XhhApi" =>
                /\ chat.did[i].arg[1] = db.bind[1]
                /\ \E r \in DOMAIN db.users :
                       chat.did[i].arg = <<db.users[r].uid, db.users[r].pkey, db.users[r].stoken>>

(***************************************************************************)
(* Client metadata and authentication of the requests.                     *)
(***************************************************************************)
Metadata == {"os_type", "x_os_type", "x_app", "x_client_type", "version", "nonce"}

\* C23: every request built by _build_params carries os_type, x_os_type, x_app,
\* x_client_type, version and nonce as they were given to the constructor of
\* the instance.
RequestsCarryClientMetadata ==
    Busy =>
        \A i \in DOMAIN last.sent :
            \A k \in Metadata : Get(last.sent[i].params, k, PyNone) = PyStr(client[k])

\* the dict holds the text as one of its values
Holds(d, text) == \E k \in DOMAIN d.v : d.v[k].t = "str" /\ d.v[k].v = text

\* the request carries the text as a parameter, a header or a cookie
Carries(req, text) ==
    Holds(req.params, text) \/ Holds(ApiHeader[req.headers], text) \/ Holds(req.cookies, text)

\* C25: every signed request carries the client's pkey and x_xhh_tokenid, as a
\* cookie, a header or a parameter, besides heybox_id, hkey and _time.
RequestsCarryCredential ==
    Busy =>
        \A i \in DOMAIN last.sent :
            /\ {"heybox_id", "hkey", "_time"} \subseteq DOMAIN last.sent[i].params.v
            /\ Carries(last.sent[i], client.pkey)
            /\ Carries(last.sent[i], client.x_xhh_tokenid)

====
